---- MODULE Spec2Model ----
(***************************************************************************)
(* Verification model of the libvirt-provider host core:                   *)
(*   - the resource sources (CPU, Memory, NIC) and the resource manager    *)
(*     that charges and releases them for machines     (SpecMgr),          *)
(*   - the file-per-object host store with per-ID locking and              *)
(*     resource-version compare-and-swap                (SpecStore),       *)
(*   - the store's write-to-swap-then-rename path with crashes and the     *)
(*     startup swap sweep                               (SpecCrash).       *)
(* Every specification leaves the other components' variables at rest.    *)
(***************************************************************************)
EXTENDS Integers, Sequences, FiniteSets, TLC

VARIABLES
    \* ---- resource manager and sources
    phase,              \* "new" (constructed), "ready" (initialized), "failed"
    maxVMsLimit,        \* rm.maxVMsLimit
    availableVMSlots,   \* rm.availableVMSlots
    src,                \* the sources' fields: availableCPU, availableMemory, availableNics
    machines,           \* machine id -> machine.Spec.Resources
    ctxCancelled,       \* the manager's context is cancelled
    operationError,     \* rm.operationError (sticky)
    lastOp,             \* the last public manager call: arguments, result, state before
    classAvail,         \* machine class -> its cached available count
    \* ---- host store
    dir,                \* the store directory: file name -> content
    idMu,               \* per-ID mutex: id -> held
    pc,                 \* per caller: position in its store call
    call,               \* per caller: the call's arguments, locals and result
    race,               \* two Updates carrying the stored version are in flight together
    \* ---- crash-safe write
    wr,                 \* the writer inside Store.set
    boot,               \* "run", "crashed" (before the sweep), "swept"
    \* ---- concurrent callers of the manager
    mx,                 \* the manager lock: its holder, or "free"
    acall,              \* per caller: position, request, locals and result
    mrace,              \* two Allocate calls are in flight together
    \* ---- PCI source
    devices,            \* PCI.devices: resource name -> free addresses, in order
    pciDevices,         \* machine id -> machine.Status.PCIDevices
    pciLast,            \* the last call of the PCI source and what it met
    \* ---- configuration and startup of the manager
    cfg,                \* the manager's fields that startup and configuration touch
    cfgLast,            \* the last configuration or startup call and its result
    \* ---- watch bus of the store
    watches,            \* subscriber -> its watch: state and buffered events
    wcall,              \* writer -> its call: the event and the handlers still to serve
    committed,          \* object id -> number of its writes that published an event
    seen,               \* subscriber -> object id -> the last event it took
    \* ---- event ring
    es,                 \* the EventStore: maxEvents, events, eventTTL, head, count
    clock,              \* time.Now(), in ticks of 1/TicksPerSecond second
    ringLast,           \* the last call on the ring and what it returned
    collector,          \* the goroutine of EventStore.Start: "idle", "running", "stopped"
    ringHist,           \* events appended and events expired since NewEventStore
    \* ---- machine classes
    classIn,            \* the arguments of one call on machine classes
    classOut,           \* what the call returned, and a second application
    \* ---- the manager over the Hugepages and PCI sources
    hostSrc,            \* Hugepages' availableMemory and availableHugePages, PCI.devices
    hostMachines,       \* machine id -> the machine: Spec.Resources, Status.PCIDevices
    hostLast,           \* the last call of the manager and what it was given
    \* ---- Server.DetachNetworkInterface
    detStore,           \* the machine record in the machine store
    detAvail,           \* NIC.availableNics
    detCall             \* per caller: position, the machine it read, its result

mgrVars   == <<phase, maxVMsLimit, availableVMSlots, src, machines, ctxCancelled,
               operationError, lastOp, classAvail>>
storeVars == <<idMu, pc, call, race>>
crashVars == <<wr, boot>>
lockVars  == <<mx, acall, mrace>>
pciVars   == <<devices, pciDevices, pciLast>>
cfgVars   == <<cfg, cfgLast>>
watchVars == <<watches, wcall, committed, seen>>
ringVars  == <<es, clock, ringLast, collector, ringHist>>
classVars == <<classIn, classOut>>
hostVars  == <<hostSrc, hostMachines, hostLast>>
detVars   == <<detStore, detAvail, detCall>>
laterVars == <<pciVars, cfgVars, watchVars, ringVars, classVars, hostVars, detVars>>
restVars  == <<lockVars, laterVars>>
vars      == <<phase, maxVMsLimit, availableVMSlots, src, machines, ctxCancelled,
               operationError, lastOp, classAvail, dir, idMu, pc, call, race, wr, boot,
               mx, acall, mrace, devices, pciDevices, pciLast, cfg, cfgLast,
               watches, wcall, committed, seen, es, clock, ringLast,
               collector, ringHist, classIn, classOut, hostSrc, hostMachines,
               hostLast, detStore, detAvail, detCall>>

\* What the actions of one component leave alone
exceptPCI == <<mgrVars, dir, storeVars, crashVars, lockVars, cfgVars, watchVars, ringVars,
              classVars, hostVars, detVars>>
exceptCfg == <<mgrVars, dir, storeVars, crashVars, lockVars, pciVars, watchVars, ringVars,
              classVars, hostVars, detVars>>
exceptWatch == <<mgrVars, pc, call, race, crashVars, lockVars, pciVars, cfgVars, ringVars,
                classVars, hostVars, detVars>>
exceptRing == <<mgrVars, dir, storeVars, crashVars, lockVars, pciVars, cfgVars, watchVars,
               classVars, hostVars, detVars>>
exceptClass == <<mgrVars, dir, storeVars, crashVars, lockVars, pciVars, cfgVars, watchVars,
                ringVars, hostVars, detVars>>
exceptHost == <<mgrVars, dir, storeVars, crashVars, lockVars, pciVars, cfgVars, watchVars,
               ringVars, classVars, detVars>>
exceptDet == <<mgrVars, dir, storeVars, crashVars, lockVars, pciVars, cfgVars, watchVars,
              ringVars, classVars, hostVars>>

-----------------------------------------------------------------------------
(* Bounds of the model *)

MaxQty      == 3     \* largest quantity a request asks of one resource
MaxVMLimit  == 1     \* vm limits 0..MaxVMLimit are configured
MaxSlots    == 1     \* Deallocate is explored while availableVMSlots < MaxSlots
HostCores   == 4     \* cpu.Info: sum of cores
HostMemory  == 3     \* mem.VirtualMemory: Total
ReservedMemorySize == 1  \* options.ReservedMemorySize
NicLimit    == 2     \* options.NicLimit
ReservedNics == 0    \* options.ReservedNics

\* The machines of the host, by id
MachineIds == {1, 2}

-----------------------------------------------------------------------------
(* core.ResourceList: a function from a finite set of resource names *)

ResourceCPU    == "cpu"
ResourceMemory == "memory"
ResourceNic    == "nic"

EmptyList == [r \in {} |-> 0]

Has(list, r) == r \in DOMAIN list

Qty(list, r) == IF r \in DOMAIN list THEN list[r] ELSE 0

Single(r, q) == [x \in {r} |-> q]

\* maps.Copy(dst, add): add's entries win
Merge(dst, add) ==
    [r \in DOMAIN dst \cup DOMAIN add |-> IF r \in DOMAIN add THEN add[r] ELSE dst[r]]

Restrict(list, names) == [r \in DOMAIN list \cap names |-> list[r]]

\* Every order in which a Go map's keys may be ranged over
Orders(D) ==
    {s \in [1..Cardinality(D) -> D] : \A i, j \in DOMAIN s : i # j => s[i] # s[j]}

-----------------------------------------------------------------------------
(* Errors *)

Nil                     == "nil"
ErrResourcesEmpty       == "ErrResourcesEmpty"
ErrResourceNotAvailable == "ErrResourceNotAvailable"
ErrResourceUnsupported  == "ErrResourceUnsupported"
ErrVMLimitReached       == "ErrVMLimitReached"
Canceled                == "context.Canceled"

-----------------------------------------------------------------------------
(* Sources.  Each operator takes the source's field and the request and    *)
(* returns the error, the field afterwards and the list charged (Allocate) *)
(* or the names released (Deallocate).                                     *)

\* CPU.Init: int64(float64(hostCPUSum) * overcommitVCPU), overcommit 1.0
CPUInit == HostCores

CPUAllocate(availableCPU, requiredResources) ==
    IF ~Has(requiredResources, ResourceCPU)
    THEN [err |-> Nil, avail |-> availableCPU, allocated |-> EmptyList]
    ELSE LET newCPU == availableCPU - requiredResources[ResourceCPU] IN
         IF newCPU < 0
         THEN [err |-> ErrResourceNotAvailable, avail |-> availableCPU,
               allocated |-> EmptyList]
         ELSE [err |-> Nil, avail |-> newCPU,
               allocated |-> Single(ResourceCPU, requiredResources[ResourceCPU])]

CPUDeallocateLeak(availableCPU, requiredResources) ==
    [avail |-> availableCPU,
     released |-> IF Has(requiredResources, ResourceCPU) THEN {ResourceCPU} ELSE {}]

CPUDeallocate(availableCPU, requiredResources) ==
    IF ~Has(requiredResources, ResourceCPU)
    THEN [avail |-> availableCPU, released |-> {}]
    ELSE [avail |-> availableCPU + requiredResources[ResourceCPU],
          released |-> {ResourceCPU}]

\* calculateAvailableMemory: an error when reserved > total
MemoryInit ==
    IF ReservedMemorySize > HostMemory
    THEN [err |-> "reservedMemorySize", avail |-> 0]
    ELSE [err |-> Nil, avail |-> HostMemory - ReservedMemorySize]

MemoryAllocate(availableMemory, requiredResources) ==
    IF ~Has(requiredResources, ResourceMemory)
    THEN [err |-> Nil, avail |-> availableMemory, allocated |-> EmptyList]
    ELSE IF availableMemory < requiredResources[ResourceMemory]
         THEN [err |-> ErrResourceNotAvailable, avail |-> availableMemory,
               allocated |-> EmptyList]
         ELSE [err |-> Nil, avail |-> availableMemory - requiredResources[ResourceMemory],
               allocated |-> Single(ResourceMemory, requiredResources[ResourceMemory])]

MemoryDeallocateLeak(availableMemory, requiredResources) ==
    [avail |-> availableMemory,
     released |-> IF Has(requiredResources, ResourceMemory) THEN {ResourceMemory} ELSE {}]

MemoryDeallocate(availableMemory, requiredResources) ==
    IF ~Has(requiredResources, ResourceMemory)
    THEN [avail |-> availableMemory, released |-> {}]
    ELSE [avail |-> availableMemory + requiredResources[ResourceMemory],
          released |-> {ResourceMemory}]

\* NewSourceNIC: int64(options.NicLimit - options.ReservedNics), a uint64
\* subtraction that wraps and reads back negative when reserved > limit
NewSourceNIC == NicLimit - ReservedNics

\* NIC.Allocate subtracts without looking at what is left and has no error
NICAllocate(availableNics, requiredResources) ==
    IF ~Has(requiredResources, ResourceNic)
    THEN [err |-> Nil, avail |-> availableNics, allocated |-> EmptyList]
    ELSE [err |-> Nil, avail |-> availableNics - requiredResources[ResourceNic],
          allocated |-> Single(ResourceNic, requiredResources[ResourceNic])]

\* A NIC.Deallocate that gives every nic back twice
NICDeallocateTwice(availableNics, requiredResources) ==
    IF ~Has(requiredResources, ResourceNic)
    THEN [avail |-> availableNics, released |-> {}]
    ELSE [avail |-> availableNics + 2 * requiredResources[ResourceNic],
          released |-> {ResourceNic}]

NICDeallocate(availableNics, requiredResources) ==
    IF ~Has(requiredResources, ResourceNic)
    THEN [avail |-> availableNics, released |-> {}]
    ELSE [avail |-> availableNics + requiredResources[ResourceNic],
          released |-> {ResourceNic}]

-----------------------------------------------------------------------------
(* Resource manager *)

SourceCPU    == "cpu"
SourceMemory == "memory"
SourceNic    == "nic"

\* rm.registredResources after Init: resource name -> owning source
registredResources ==
    [r \in {ResourceCPU, ResourceMemory, ResourceNic} |->
        CASE r = ResourceCPU    -> SourceCPU
          [] r = ResourceMemory -> SourceMemory
          [] r = ResourceNic    -> SourceNic]

OwnedBy(source) == {r \in DOMAIN registredResources : registredResources[r] = source}

\* source.Allocate(machine, required) on the fields in s
SourceAllocate(s, source, required) ==
    CASE source = SourceCPU ->
           LET r == CPUAllocate(s.availableCPU, required) IN
           [err |-> r.err, src |-> [s EXCEPT !.availableCPU = r.avail],
            allocated |-> r.allocated]
      [] source = SourceMemory ->
           LET r == MemoryAllocate(s.availableMemory, required) IN
           [err |-> r.err, src |-> [s EXCEPT !.availableMemory = r.avail],
            allocated |-> r.allocated]
      [] source = SourceNic ->
           LET r == NICAllocate(s.availableNics, required) IN
           [err |-> r.err, src |-> [s EXCEPT !.availableNics = r.avail],
            allocated |-> r.allocated]

\* Every source's Deallocate, each with the part of the list it owns
SourcesDeallocate(s, list) ==
    LET c == CPUDeallocate(s.availableCPU, Restrict(list, OwnedBy(SourceCPU)))
        m == MemoryDeallocate(s.availableMemory, Restrict(list, OwnedBy(SourceMemory)))
        n == NICDeallocate(s.availableNics, Restrict(list, OwnedBy(SourceNic)))
    IN  [src |-> [availableCPU |-> c.avail, availableMemory |-> m.avail,
                  availableNics |-> n.avail],
         released |-> c.released \cup m.released \cup n.released]

\* Step 5 of allocate: charge each (name, qty) of required at its source, in
\* the order ord; stop at the first failure
RECURSIVE chargeEach(_, _, _, _)
chargeEach(ord, i, required, st) ==
    IF i > Len(ord) THEN st
    ELSE LET name == ord[i]
             r == SourceAllocate(st.src, registredResources[name],
                                 Single(name, required[name]))
         IN  IF r.err # Nil
             THEN [st EXCEPT !.err = r.err]
             ELSE chargeEach(ord, i + 1, required,
                             [src |-> r.src, err |-> Nil,
                              total |-> Merge(st.total, r.allocated)])

\* rm.checkContext: a cancelled context becomes the sticky operation error
checkContext(cancelled) == IF cancelled THEN Canceled ELSE Nil

\* sources.QuantityCountIgnore: the count by which a source says that it
\* does not cap the class
QuantityCountIgnore == -1

\* math.MaxInt64, cut to the largest integer the checker holds
MaxInt64 == 2147483647

ErrSourceMissing == "failed to find source for resource"

\* CPU.CalculateMachineClassQuantity: math.Floor(available / quantity)
CPUCalculateMachineClassQuantity(availableCPU, quantity) ==
    availableCPU \div quantity

\* Memory.CalculateMachineClassQuantity: math.Floor(available / quantity)
MemoryCalculateMachineClassQuantity(availableMemory, quantity) ==
    availableMemory \div quantity

\* The least of the sources' counts with the ignored ones counted too
RECURSIVE minCountAll(_, _, _, _)
minCountAll(ord, i, sourceCount, count) ==
    IF i > Len(ord) THEN count
    ELSE LET q == sourceCount[ord[i]]
         IN  minCountAll(ord, i + 1, sourceCount, IF q < count THEN q ELSE count)

\* The loop of calculateMachineClassQuantity over the class's resources in
\* the order ord: a count of QuantityCountIgnore is skipped, a lower count
\* replaces the one held
RECURSIVE minCount(_, _, _, _)
minCount(ord, i, sourceCount, count) ==
    IF i > Len(ord) THEN count
    ELSE LET q == sourceCount[ord[i]]
         IN  minCount(ord, i + 1, sourceCount,
                      IF q = QuantityCountIgnore THEN count
                      ELSE IF q < count THEN q ELSE count)

\* rm.calculateMachineClassQuantity(class): sourceCount[r] is what the source
\* that owns r answers for the class's quantity of r
calculateMachineClassQuantity(ord, sourceCount, limit, slots) ==
    IF \E i \in DOMAIN ord : ord[i] \notin DOMAIN sourceCount
    THEN [err |-> ErrSourceMissing, available |-> 0]
    ELSE LET count  == minCount(ord, 1, sourceCount, MaxInt64)
             capped == IF limit > 0 /\ count > slots THEN slots ELSE count
         IN  [err |-> Nil, available |-> IF capped < 0 THEN 0 ELSE capped]

\* rm.machineClasses: the classes of the catalog, in the order of the file
machineClasses ==
    <<[cpu |-> 1, memory |-> 1], [cpu |-> MaxQty, memory |-> 1]>>

\* No class has been counted
NoAvail == [k \in DOMAIN machineClasses |-> 0]

\* What the sources of cpu and memory answer for a class
sourceCount(s, class) ==
    [r \in {ResourceCPU, ResourceMemory} |->
        IF r = ResourceCPU
        THEN CPUCalculateMachineClassQuantity(s.availableCPU, class[r])
        ELSE MemoryCalculateMachineClassQuantity(s.availableMemory, class[r])]

\* The available count of every class, from the sources' fields s
calculateMachineClassesQuantity(s, limit, slots) ==
    [k \in DOMAIN machineClasses |->
        calculateMachineClassQuantity(
            CHOOSE o \in Orders(DOMAIN machineClasses[k]) : TRUE,
            sourceCount(s, machineClasses[k]), limit, slots).available]

\* rm.getAvailableMachineClasses: a copy of each class with its cached count
getAvailableMachineClasses(avail) ==
    [k \in DOMAIN machineClasses |->
        [MachineClass |-> machineClasses[k], Quantity |-> avail[k]]]

\* A limit check that looks at the slots alone
vmLimitReachedUnset(limit, slots) == slots = 0

\* Step 3 of allocate: a vm limit is set and no slot is left
vmLimitReached(limit, slots) == limit > 0 /\ slots = 0

\* A caller error that stays as the manager's operation error
callerErrorLatch(same, err) == [same EXCEPT !.err = err, !.opErr = err]

\* A caller error: handed to the caller, the manager as it was
callerError(same, err) == [same EXCEPT !.err = err]

\* rm.allocate on the manager state m = [src, slots, opErr] and the machine's
\* Spec.Resources; ord is the order the required map is ranged over
mngAllocate(m, resources, required, ord, limit, cancelled) ==
    LET same == [err |-> Nil, src |-> m.src, slots |-> m.slots, opErr |-> m.opErr,
                 resources |-> resources, undone |-> {}, avail |-> m.avail]
    IN
    IF m.opErr # Nil THEN [same EXCEPT !.err = m.opErr]
    ELSE IF checkContext(cancelled) # Nil
    THEN [same EXCEPT !.err = checkContext(cancelled), !.opErr = checkContext(cancelled)]
    ELSE IF vmLimitReached(limit, m.slots) THEN callerError(same, ErrVMLimitReached)
    ELSE IF \E name \in DOMAIN required : name \notin DOMAIN registredResources
    THEN callerError(same, ErrResourceUnsupported)
    ELSE LET st == chargeEach(ord, 1, required,
                              [src |-> m.src, err |-> Nil, total |-> EmptyList])
         IN  IF st.err # Nil
             THEN \* rollback: release exactly what was charged
                  [same EXCEPT !.err = st.err,
                               !.src = SourcesDeallocate(st.src, st.total).src,
                               !.undone = DOMAIN st.total]
             ELSE [err |-> Nil, src |-> st.src, slots |-> m.slots - 1,
                   opErr |-> m.opErr, resources |-> Merge(resources, st.total),
                   undone |-> {},
                   avail |-> calculateMachineClassesQuantity(st.src, limit, m.slots - 1)]

\* A release that leaves machine.Spec.Resources as it was
afterReleaseKeep(resources, toRelease, released) == resources

\* machine.Spec.Resources after the names in released were given back: a key
\* that is released in full goes, one released in part keeps the rest
afterRelease(resources, toRelease, released) ==
    LET left(r) == resources[r] - Qty(toRelease, r)
        keep == {r \in DOMAIN resources : r \notin released \/ left(r) > 0}
    IN  [r \in keep |-> IF r \in released THEN left(r) ELSE resources[r]]

\* An rm.deallocate that leaves the classes' counts as they were
mngDeallocateStale(m, resources, toRelease, cancelled) ==
    LET same == [err |-> Nil, src |-> m.src, slots |-> m.slots, opErr |-> m.opErr,
                 resources |-> resources, undone |-> {}, avail |-> m.avail]
    IN
    IF m.opErr # Nil THEN [same EXCEPT !.err = m.opErr]
    ELSE IF checkContext(cancelled) # Nil
    THEN [same EXCEPT !.err = checkContext(cancelled), !.opErr = checkContext(cancelled)]
    ELSE LET d == SourcesDeallocate(m.src, Restrict(toRelease, DOMAIN registredResources))
         IN  [err |-> Nil, src |-> d.src, slots |-> m.slots + 1, opErr |-> m.opErr,
              resources |-> afterRelease(resources, toRelease, d.released),
              undone |-> {}, avail |-> m.avail]

\* rm.deallocate; m.limit is rm.maxVMsLimit
mngDeallocate(m, resources, toRelease, cancelled) ==
    LET same == [err |-> Nil, src |-> m.src, slots |-> m.slots, opErr |-> m.opErr,
                 resources |-> resources, undone |-> {}, avail |-> m.avail]
    IN
    IF m.opErr # Nil THEN [same EXCEPT !.err = m.opErr]
    ELSE IF checkContext(cancelled) # Nil
    THEN [same EXCEPT !.err = checkContext(cancelled), !.opErr = checkContext(cancelled)]
    ELSE LET d == SourcesDeallocate(m.src, Restrict(toRelease, DOMAIN registredResources))
         IN  [err |-> Nil, src |-> d.src, slots |-> m.slots + 1, opErr |-> m.opErr,
              resources |-> afterRelease(resources, toRelease, d.released),
              undone |-> {},
              avail |-> calculateMachineClassesQuantity(d.src, m.limit, m.slots + 1)]

HasNoMachineAllocatedResources(resources) == FALSE

HasMachineAllocatedResources(resources) == DOMAIN resources # {}

\* manager.Allocate: the public entry point
Allocate(m, resources, required, ord, limit, cancelled) ==
    IF DOMAIN required = {}
    THEN [err |-> ErrResourcesEmpty, src |-> m.src, slots |-> m.slots,
          opErr |-> m.opErr, resources |-> resources, undone |-> {},
          avail |-> m.avail]
    ELSE mngAllocate(m, resources, required, ord, limit, cancelled)

\* manager.Deallocate: the public entry point
Deallocate(m, resources, deallocateResources, cancelled) ==
    IF DOMAIN deallocateResources = {}
    THEN [err |-> ErrResourcesEmpty, src |-> m.src, slots |-> m.slots,
          opErr |-> m.opErr, resources |-> resources, undone |-> {},
          avail |-> m.avail]
    ELSE IF ~HasMachineAllocatedResources(resources)
    THEN [err |-> Nil, src |-> m.src, slots |-> m.slots,
          opErr |-> m.opErr, resources |-> resources, undone |-> {},
          avail |-> m.avail]
    ELSE mngDeallocate(m, resources, deallocateResources, cancelled)

\* rm.initialize, step 4: replay allocate for the persisted machines, in the
\* order the store lists them (by id); the first failure aborts
RECURSIVE replay(_, _, _, _)
replay(ids, persisted, m, limit) ==
    IF ids = {} THEN [err |-> Nil, src |-> m.src, slots |-> m.slots]
    ELSE LET id == CHOOSE i \in ids : \A j \in ids : i <= j
             req == persisted[id]
             r == mngAllocate(m, EmptyList, req, CHOOSE o \in Orders(DOMAIN req) : TRUE,
                              limit, FALSE)
         IN  IF r.err # Nil
             THEN [err |-> r.err, src |-> r.src, slots |-> r.slots]
             ELSE replay(ids \ {id}, persisted,
                         [src |-> r.src, slots |-> r.slots, opErr |-> Nil,
                          avail |-> NoAvail, limit |-> limit], limit)

\* rm.initialize after the replay r: the count of every class, unless the
\* replay failed
countClasses(r, limit) ==
    [err |-> r.err, src |-> r.src, slots |-> r.slots,
     avail |-> IF r.err # Nil THEN NoAvail
               ELSE calculateMachineClassesQuantity(r.src, limit, r.slots)]

\* rm.initialize: Init of every source, then the replay, then the count of
\* every class
mngInitialize(s, persisted, limit) ==
    IF MemoryInit.err # Nil
    THEN [err |-> MemoryInit.err, src |-> s, slots |-> limit, avail |-> NoAvail]
    ELSE countClasses(replay(DOMAIN persisted, persisted,
                             [src |-> [s EXCEPT !.availableCPU = CPUInit,
                                                !.availableMemory = MemoryInit.avail],
                              slots |-> limit, opErr |-> Nil, avail |-> NoAvail,
                              limit |-> limit],
                             limit),
                      limit)

-----------------------------------------------------------------------------
(* Inputs of the manager's entry points *)

Names == {ResourceCPU, ResourceMemory, ResourceNic}

\* The quantities asked for: the least and the largest
Quantities == {1, MaxQty}

\* What a machine class asks: cpu and memory
ClassLists == [{ResourceCPU, ResourceMemory} -> Quantities]

\* machine.Spec.Resources of a persisted machine: what an earlier run charged,
\* with one interface or with more interfaces than the nic source now has
PersistedLists ==
    {EmptyList} \cup ClassLists
        \cup {Merge(l, Single(ResourceNic, n)) : l \in ClassLists, n \in {1, NicLimit + 1}}

\* Allocate: nothing, class resources with or without interfaces (GetRequiredResources
\* adds nic = len(NetworkInterfaces), 0 included), interfaces alone, an unknown name
RequiredLists ==
    {EmptyList} \cup ClassLists
    \cup {Merge(l, Single(ResourceNic, n)) : l \in ClassLists, n \in {0, 1}}
    \cup [{ResourceNic} -> Quantities]
    \cup [{ResourceCPU, "unsupported"} -> {1}]

\* Deallocate: nothing, or one resource (the machine's whole list is added per machine)
ReleaseLists == {EmptyList} \cup UNION {[{r} -> Quantities] : r \in Names}

\* The list asks back more of a resource than the machine holds
OverRelease(resources, toRelease) ==
    \E r \in DOMAIN toRelease \cap DOMAIN registredResources :
        toRelease[r] > Qty(resources, r)

Capacity ==
    [r \in Names |-> CASE r = ResourceCPU    -> CPUInit
                       [] r = ResourceMemory -> MemoryInit.avail
                       [] r = ResourceNic    -> NewSourceNIC]

Available(s) ==
    [r \in Names |-> CASE r = ResourceCPU    -> s.availableCPU
                       [] r = ResourceMemory -> s.availableMemory
                       [] r = ResourceNic    -> s.availableNics]

RECURSIVE SumAllocated(_, _, _)
SumAllocated(ms, ids, r) ==
    IF ids = {} THEN 0
    ELSE LET id == CHOOSE i \in ids : TRUE
         IN  Qty(ms[id], r) + SumAllocated(ms, ids \ {id}, r)

\* available + allocated = capacity, for every resource
Conserved(s, ms) ==
    \A r \in Names : Available(s)[r] + SumAllocated(ms, MachineIds, r) = Capacity[r]

NoOp == [kind |-> "none", err |-> Nil, emptyList |-> FALSE, held |-> FALSE,
         over |-> FALSE, rolledBack |-> FALSE]

\* The record of a public call: its result, whether the list passed was empty,
\* whether the machine held anything, whether this or an earlier Deallocate
\* got back more than the machine held, whether a rollback took place
Op(kind, m, err, list, over, undone) ==
    [kind |-> kind, err |-> err, emptyList |-> DOMAIN list = {},
     held |-> IF m \in MachineIds THEN DOMAIN machines[m] # {} ELSE FALSE,
     over |-> lastOp.over \/ over, rolledBack |-> undone # {}]

mgrState == [src |-> src, slots |-> availableVMSlots, opErr |-> operationError,
             avail |-> classAvail, limit |-> maxVMsLimit]

-----------------------------------------------------------------------------
(* Actions of the manager *)

MgrInit ==
    /\ phase = "new"
    /\ maxVMsLimit \in 0..MaxVMLimit
    /\ availableVMSlots = 0
    /\ src = [availableCPU |-> 0, availableMemory |-> 0, availableNics |-> NewSourceNIC]
    /\ machines = [m \in MachineIds |-> EmptyList]
    /\ ctxCancelled = FALSE
    /\ operationError = Nil
    /\ lastOp = NoOp
    /\ classAvail = NoAvail

\* manager.Initialize with the machines the store lists
Initialize ==
    /\ phase = "new"
    /\ \E P \in SUBSET MachineIds : \E persisted \in [P -> PersistedLists] :
         LET r == mngInitialize(src, persisted, maxVMsLimit) IN
         /\ phase' = IF r.err = Nil THEN "ready" ELSE "failed"
         /\ src' = r.src
         /\ availableVMSlots' = r.slots
         /\ classAvail' = r.avail
         /\ machines' = [m \in MachineIds |-> IF m \in P THEN persisted[m] ELSE EmptyList]
         /\ lastOp' = Op("Initialize", 0, r.err, EmptyList, FALSE, {})
    /\ operationError' = Nil
    /\ UNCHANGED <<maxVMsLimit, ctxCancelled>>
    /\ UNCHANGED <<dir, storeVars, crashVars, restVars>>

Apply(r, m) ==
    /\ src' = r.src
    /\ classAvail' = r.avail
    /\ availableVMSlots' = r.slots
    /\ operationError' = r.opErr
    /\ machines' = [machines EXCEPT ![m] = r.resources]
    /\ UNCHANGED <<phase, maxVMsLimit, ctxCancelled>>

\* The entry points are explored from a successful Initialize up to the first
\* Deallocate that gets back more than the machine held
Explored == phase = "ready" /\ ~lastOp.over

\* manager.Allocate(machine, required) for a machine that holds nothing yet
AllocateCall ==
    /\ Explored
    /\ \E m \in MachineIds : \E required \in RequiredLists :
       \E ord \in Orders(DOMAIN required) :
         /\ machines[m] = EmptyList
         /\ LET r == Allocate(mgrState, machines[m], required, ord, maxVMsLimit,
                              ctxCancelled) IN
            /\ Apply(r, m)
            /\ lastOp' = Op("Allocate", m, r.err, required, FALSE, r.undone)
    /\ UNCHANGED <<dir, storeVars, crashVars, restVars>>

\* manager.Deallocate(machine, list)
DeallocateCall ==
    /\ Explored
    /\ availableVMSlots < MaxSlots
    /\ \E m \in MachineIds : \E list \in ReleaseLists \cup {machines[m]} :
         LET r == Deallocate(mgrState, machines[m], list, ctxCancelled) IN
         /\ Apply(r, m)
         /\ lastOp' = Op("Deallocate", m, r.err, list,
                         r.src # src /\ OverRelease(machines[m], list), {})
    /\ UNCHANGED <<dir, storeVars, crashVars, restVars>>

\* Server.DetachNetworkInterface, after the machine record lost the interface:
\* manager.Deallocate(machine, {nic: 1}).  The machine was charged one nic
\* per interface (GetRequiredResources), so it holds a nic when one is found.
DetachNetworkInterface ==
    /\ Explored
    /\ availableVMSlots < MaxSlots
    /\ \E m \in MachineIds :
         /\ Qty(machines[m], ResourceNic) >= 1
         /\ LET r == Deallocate(mgrState, machines[m], Single(ResourceNic, 1),
                                ctxCancelled) IN
            /\ Apply(r, m)
            /\ lastOp' = Op("Detach", m, r.err, Single(ResourceNic, 1), FALSE, {})
    /\ UNCHANGED <<dir, storeVars, crashVars, restVars>>

\* The context handed to the manager is cancelled
Cancel ==
    /\ Explored
    /\ ~ctxCancelled
    /\ ctxCancelled' = TRUE
    /\ UNCHANGED <<phase, maxVMsLimit, availableVMSlots, src, machines,
                   operationError, lastOp, classAvail>>
    /\ UNCHANGED <<dir, storeVars, crashVars, restVars>>

-----------------------------------------------------------------------------
(* Host store: one file per object, written through <id>.swp *)

MaxVersion == 1      \* callers pass records of version up to MaxVersion
MaxWrites  == 2      \* Store.set is followed step by step up to this version
MaxAddrs   == 2      \* addresses PCI.Init finds under each catalogued name
MaxPublished == 2    \* writes that publish a watch event
MaxRing    == 2      \* the largest maxEvents of an event ring
EventTTL   == 1      \* ticks an event stays in the ring (eventTTL)
MaxClock   == 4      \* ticks the clock is followed
TicksPerSecond == 2  \* resolution of time.Now() against the seconds of EventTime
MaxAdds    == 3      \* events appended to one ring
MaxPageSize == 2     \* the largest hugepage size of a host
MaxClassMemory == 5  \* the largest memory a machine class declares
MaxCount   == 2      \* the largest count a source answers for a class

Ids   == {"m1", "m2"}
Procs == {"p1", "p2"}

suffixSwpExtension == ".swp"

ErrNotFound                 == "ErrNotFound"
ErrAlreadyExists            == "ErrAlreadyExists"
ErrResourceVersionNotLatest == "ErrResourceVersionNotLatest"

WatchEventTypeCreated == "Created"
WatchEventTypeUpdated == "Updated"
WatchEventTypeDeleted == "Deleted"
NoEvent               == "none"

\* filepath.Join(s.dir, id) and the swap file beside it
FilePath(id)    == <<id, "">>
InPlacePath(id) == <<id, "">>
SwpFilePath(id) == <<id, suffixSwpExtension>>
FileNames       == {FilePath(id) : id \in Ids} \cup {SwpFilePath(id) : id \in Ids}

\* time.Time values: the nil *time.Time and time.Now()
NilTime == "nil"
now     == "now"

\* api.Object: id, resource version, deletedAt, finalizers
Objects == [id : Ids, version : 0..MaxVersion, deletedAt : {NilTime, now},
            finalizers : SUBSET {"f"}]

ZeroObj == [id |-> "", version |-> 0, deletedAt |-> NilTime, finalizers |-> {}]

\* The content of a directory entry; complete is false for a file whose
\* encoding was cut short
NoFile       == [exists |-> FALSE, complete |-> FALSE, obj |-> ZeroObj]
Whole(obj)   == [exists |-> TRUE, complete |-> TRUE, obj |-> obj]
Partial(obj) == [exists |-> TRUE, complete |-> FALSE, obj |-> obj]

\* An object whose resource version is never raised
KeepResourceVersion(obj) == obj

IncrementResourceVersion(obj) == [obj EXCEPT !.version = obj.version + 1]

\* Store.set: os.OpenFile(swp, O_CREATE|O_WRONLY), Encode, Sync, Rename.
\* The open does not truncate: what an earlier failed set left in the swap
\* file stays until Encode writes over it from the start; a longer stale tail
\* follows the new record, and the decoder of get reads the first value only.
setOpen(d, id) ==
    IF d[SwpFilePath(id)].exists THEN d
    ELSE [d EXCEPT ![SwpFilePath(id)] = Partial(ZeroObj)]

setEncode(d, obj) == [d EXCEPT ![SwpFilePath(obj.id)] = Whole(obj)]

\* the encoder stopped after a part of the record
setEncodeCut(d, obj) == [d EXCEPT ![SwpFilePath(obj.id)] = Partial(obj)]

setRename(d, id) ==
    [d EXCEPT ![FilePath(id)] = d[SwpFilePath(id)], ![SwpFilePath(id)] = NoFile]

\* Store.set when every step succeeds
set(d, obj) == setRename(setEncode(setOpen(d, obj.id), obj), obj.id)

\* Store.get: the decoded file, or not found
get(d, id) == d[FilePath(id)]

\* Store.delete: os.Remove
delete(d, id) == [d EXCEPT ![FilePath(id)] = NoFile]

Outcome(d, res, event) == [dir |-> d, res |-> res, event |-> event]

\* A Create that writes without looking at what s.get read
CreateBlind(d, obj, old) ==
    Outcome(set(d, IncrementResourceVersion(obj)), Nil, WatchEventTypeCreated)

\* Store.Create after the lock is taken; old is what s.get read
Create(d, obj, old) ==
    IF old.exists THEN Outcome(d, ErrAlreadyExists, NoEvent)
    ELSE Outcome(set(d, IncrementResourceVersion(obj)), Nil, WatchEventTypeCreated)

UpdateNoCompare(d, obj, old) ==
    IF ~old.exists THEN Outcome(d, ErrNotFound, NoEvent)
    ELSE IF obj.deletedAt # NilTime /\ obj.finalizers = {}
    THEN Outcome(delete(d, obj.id), Nil, NoEvent)
    ELSE IF old.obj = obj THEN Outcome(d, Nil, NoEvent)
    ELSE Outcome(set(d, IncrementResourceVersion(obj)), Nil, WatchEventTypeUpdated)

UpdateNoBump(d, obj, old) ==
    IF ~old.exists THEN Outcome(d, ErrNotFound, NoEvent)
    ELSE IF obj.deletedAt # NilTime /\ obj.finalizers = {}
    THEN Outcome(delete(d, obj.id), Nil, NoEvent)
    ELSE IF old.obj.version # obj.version
    THEN Outcome(d, ErrResourceVersionNotLatest, NoEvent)
    ELSE IF old.obj = obj THEN Outcome(d, Nil, NoEvent)
    ELSE Outcome(set(d, obj), Nil, WatchEventTypeUpdated)

\* Update that takes the deletion mark as one more change to store
UpdateNoHardDelete(d, obj, old) ==
    IF ~old.exists THEN Outcome(d, ErrNotFound, NoEvent)
    ELSE IF old.obj.version # obj.version
    THEN Outcome(d, ErrResourceVersionNotLatest, NoEvent)
    ELSE IF old.obj = obj THEN Outcome(d, Nil, NoEvent)
    ELSE Outcome(set(d, IncrementResourceVersion(obj)), Nil, WatchEventTypeUpdated)

\* Update that stores whatever it is given, changed or not
UpdateAlwaysWrite(d, obj, old) ==
    IF ~old.exists THEN Outcome(d, ErrNotFound, NoEvent)
    ELSE IF obj.deletedAt # NilTime /\ obj.finalizers = {}
    THEN Outcome(delete(d, obj.id), Nil, NoEvent)
    ELSE IF old.obj.version # obj.version
    THEN Outcome(d, ErrResourceVersionNotLatest, NoEvent)
    ELSE Outcome(set(d, IncrementResourceVersion(obj)), Nil, WatchEventTypeUpdated)

\* Store.Update after the lock is taken
Update(d, obj, old) ==
    IF ~old.exists THEN Outcome(d, ErrNotFound, NoEvent)
    ELSE IF obj.deletedAt # NilTime /\ obj.finalizers = {}
    THEN Outcome(delete(d, obj.id), Nil, NoEvent)
    ELSE IF old.obj.version # obj.version
    THEN Outcome(d, ErrResourceVersionNotLatest, NoEvent)
    ELSE IF old.obj = obj THEN Outcome(d, Nil, NoEvent)
    ELSE Outcome(set(d, IncrementResourceVersion(obj)), Nil, WatchEventTypeUpdated)

DeleteUngated(d, id, old) ==
    IF ~old.exists THEN Outcome(d, ErrNotFound, NoEvent)
    ELSE Outcome(delete(d, id), Nil, NoEvent)

\* A Delete that stamps the record again when it is already stamped
DeleteRestamp(d, id, old) ==
    IF ~old.exists THEN Outcome(d, ErrNotFound, NoEvent)
    ELSE IF old.obj.finalizers = {} THEN Outcome(delete(d, id), Nil, NoEvent)
    ELSE Outcome(set(d, IncrementResourceVersion([old.obj EXCEPT !.deletedAt = now])),
                 Nil, WatchEventTypeDeleted)

\* Store.Delete after the lock is taken
Delete(d, id, old) ==
    IF ~old.exists THEN Outcome(d, ErrNotFound, NoEvent)
    ELSE IF old.obj.finalizers = {} THEN Outcome(delete(d, id), Nil, NoEvent)
    ELSE IF old.obj.deletedAt # NilTime THEN Outcome(d, Nil, NoEvent)
    ELSE Outcome(set(d, IncrementResourceVersion([old.obj EXCEPT !.deletedAt = now])),
                 Nil, WatchEventTypeDeleted)

-----------------------------------------------------------------------------
(* Callers of the store.  A call waits for the object's mutex, reads the    *)
(* file under it (s.get), runs the rest of the method and unlocks.          *)

Idle == [op |-> "none", obj |-> ZeroObj, old |-> NoFile, res |-> Nil,
         event |-> NoEvent]

NewCall(op, obj) == [Idle EXCEPT !.op = op, !.obj = obj]

\* What a caller may pass
CreateArgs == {o \in Objects : o.version = 0 /\ o.deletedAt = NilTime}
UpdateArgs == {o \in Objects : o.version >= 1}
DeleteArgs == {o \in Objects : o.version = 0 /\ o.deletedAt = NilTime /\ o.finalizers = {}}

NoRace == [on |-> FALSE, stored |-> ZeroObj]

\* Another caller's Update of the same object, carrying the stored version
\* as obj does, is waiting for the lock
Racing(p, obj) ==
    \E q \in Procs \ {p} :
        /\ pc[q] = "wait"
        /\ call[q].op = "Update"
        /\ call[q].obj.id = obj.id
        /\ get(dir, obj.id).exists
        /\ get(dir, obj.id).obj.version = obj.version
        /\ call[q].obj.version = obj.version

\* s.idMu.Lock(id) can be taken
LockFree(id) == ~idMu[id]

StoreInit ==
    /\ dir = [f \in FileNames |-> NoFile]
    /\ idMu = [id \in Ids |-> FALSE]
    /\ pc = [p \in Procs |-> "idle"]
    /\ call = [p \in Procs |-> Idle]
    /\ race = NoRace

\* A caller enters Create, Update or Delete
StoreCall(p) ==
    /\ pc[p] = "idle"
    /\ \E op \in {"Create", "Update", "Delete"} :
       \E obj \in (CASE op = "Create" -> CreateArgs
                     [] op = "Update" -> UpdateArgs
                     [] op = "Delete" -> DeleteArgs) :
         /\ call' = [call EXCEPT ![p] = NewCall(op, obj)]
         /\ race' = IF op = "Update" /\ Racing(p, obj)
                    THEN [on |-> TRUE, stored |-> get(dir, obj.id).obj]
                    ELSE race
    /\ pc' = [pc EXCEPT ![p] = "wait"]
    /\ UNCHANGED <<dir, idMu>>
    /\ UNCHANGED <<mgrVars, crashVars, restVars>>

\* s.idMu.Lock(id); oldObj, err := s.get(id)
StoreLock(p) ==
    /\ pc[p] = "wait"
    /\ LockFree(call[p].obj.id)
    /\ idMu' = [idMu EXCEPT ![call[p].obj.id] = TRUE]
    /\ call' = [call EXCEPT ![p].old = get(dir, call[p].obj.id)]
    /\ pc' = [pc EXCEPT ![p] = "locked"]
    /\ UNCHANGED <<dir, race>>
    /\ UNCHANGED <<mgrVars, crashVars, restVars>>

\* The rest of Create, Update or Delete, and the deferred Unlock
StoreCommit(p) ==
    /\ pc[p] = "locked"
    /\ LET c == call[p]
           r == CASE c.op = "Create" -> Create(dir, c.obj, c.old)
                  [] c.op = "Update" -> Update(dir, c.obj, c.old)
                  [] c.op = "Delete" -> Delete(dir, c.obj.id, c.old)
       IN  /\ dir' = r.dir
           /\ call' = [call EXCEPT ![p].res = r.res, ![p].event = r.event,
                                   ![p].old = NoFile]
    /\ idMu' = [idMu EXCEPT ![call[p].obj.id] = FALSE]
    /\ pc' = [pc EXCEPT ![p] = "done"]
    /\ UNCHANGED race
    /\ UNCHANGED <<mgrVars, crashVars, restVars>>

\* The caller takes the result
StoreReturn(p) ==
    /\ pc[p] = "done"
    /\ pc' = [pc EXCEPT ![p] = "idle"]
    /\ call' = [call EXCEPT ![p] = Idle]
    /\ race' = NoRace
    /\ UNCHANGED <<dir, idMu>>
    /\ UNCHANGED <<mgrVars, crashVars, restVars>>

-----------------------------------------------------------------------------
(* Store.set step by step, with failing steps and a process that stops at   *)
(* any point, and the sweep CleanupSwapFiles does at startup.               *)

\* strings.HasSuffix(entry.Name(), suffixSwpExtension): remove, else keep
CleanupSwapFiles(d) ==
    [f \in DOMAIN d |-> IF f[2] = suffixSwpExtension THEN NoFile ELSE d[f]]

WrIdle == [step |-> "idle", outcome |-> "none", obj |-> ZeroObj, prev |-> NoFile]

BootRun == [state |-> "run", swept |-> FALSE, removed |-> {}]

\* The records a caller of set may hold for id: the next version of the stored one
NextRecords(d, id) ==
    {[ZeroObj EXCEPT !.id = id, !.version = v] :
        v \in {w \in 1..MaxWrites : w = get(d, id).obj.version + 1}}

CrashInit ==
    /\ dir = [f \in FileNames |-> NoFile]
    /\ wr = WrIdle
    /\ boot = BootRun

Stop(outcome) == [wr EXCEPT !.step = "idle", !.outcome = outcome]

\* s.set(obj) is entered
WBegin ==
    /\ boot.state = "run"
    /\ wr.step = "idle"
    /\ \E id \in Ids : \E obj \in NextRecords(dir, id) :
         wr' = [step |-> "open", outcome |-> "none", obj |-> obj, prev |-> get(dir, id)]
    /\ UNCHANGED <<dir, boot>>
    /\ UNCHANGED <<mgrVars, storeVars, restVars>>

\* os.OpenFile(swpFilePath, O_CREATE|O_WRONLY)
WOpen ==
    /\ boot.state = "run"
    /\ wr.step = "open"
    /\ dir' = setOpen(dir, wr.obj.id)
    /\ wr' = [wr EXCEPT !.step = "encode"]
    /\ boot' = [boot EXCEPT !.swept = FALSE]
    /\ UNCHANGED <<mgrVars, storeVars, restVars>>

\* json.NewEncoder(fd).Encode(obj)
WEncode ==
    /\ boot.state = "run"
    /\ wr.step = "encode"
    /\ dir' = setEncode(dir, wr.obj)
    /\ wr' = [wr EXCEPT !.step = "sync"]
    /\ UNCHANGED boot
    /\ UNCHANGED <<mgrVars, storeVars, restVars>>

\* fd.Sync()
WSync ==
    /\ boot.state = "run"
    /\ wr.step = "sync"
    /\ wr' = [wr EXCEPT !.step = "rename"]
    /\ UNCHANGED <<dir, boot>>
    /\ UNCHANGED <<mgrVars, storeVars, restVars>>

\* os.Rename(swpFilePath, filePath)
WRename ==
    /\ boot.state = "run"
    /\ wr.step = "rename"
    /\ dir' = setRename(dir, wr.obj.id)
    /\ wr' = Stop("done")
    /\ UNCHANGED boot
    /\ UNCHANGED <<mgrVars, storeVars, restVars>>

\* A step of set returns an error: open, sync and rename leave the directory
\* as it is, a failed encode leaves a part of the record in the swap file
WFail ==
    /\ boot.state = "run"
    /\ wr.step \in {"open", "encode", "sync", "rename"}
    /\ dir' = IF wr.step = "encode" THEN setEncodeCut(dir, wr.obj) ELSE dir
    /\ wr' = Stop("failed")
    /\ UNCHANGED boot
    /\ UNCHANGED <<mgrVars, storeVars, restVars>>

\* The process stops.  What was written to the swap file and not yet synced
\* may be on disk in part only.
Crash ==
    /\ boot.state = "run"
    /\ \E cut \in BOOLEAN :
         dir' = IF wr.step = "encode" /\ cut THEN setEncodeCut(dir, wr.obj)
                ELSE IF wr.step = "sync" /\ cut THEN setEncodeCut(dir, wr.obj)
                ELSE dir
    /\ wr' = IF wr.step = "idle" THEN wr ELSE Stop("crashed")
    /\ boot' = [boot EXCEPT !.state = "down"]
    /\ UNCHANGED <<mgrVars, storeVars, restVars>>

\* Startup: CleanupSwapFiles
Sweep ==
    /\ boot.state = "down"
    /\ dir' = CleanupSwapFiles(dir)
    /\ boot' = [state |-> "run", swept |-> TRUE,
                 removed |-> {f \in DOMAIN dir : f[2] = suffixSwpExtension /\ dir[f].exists}]
    /\ UNCHANGED wr
    /\ UNCHANGED <<mgrVars, storeVars, restVars>>

-----------------------------------------------------------------------------
(* Concurrent callers of the manager.  Every entry point takes the manager  *)
(* lock for its whole duration; under it CPU.Allocate reads availableCPU,   *)
(* computes what would be left, and refuses or stores it.                   *)

Callers == {"a1", "a2"}

MxFree == "free"

AIdle == [pc |-> "idle", cpu |-> 0, newCPU |-> 0, err |-> Nil, held |-> 0]

NoPair == [on |-> FALSE, avail |-> 0]

CPUNeverShort(newCPU) == FALSE

\* CPU.Allocate: newCPU.Sign() == -1
CPUShort(newCPU) == newCPU < 0

LockInit ==
    /\ mx = MxFree
    /\ acall = [c \in Callers |-> AIdle]
    /\ mrace = NoPair

\* A caller that holds nothing enters Allocate(machine, {cpu: q}); the pair is
\* noted when the other caller's Allocate has not taken the lock yet
AllocEnter(c) ==
    /\ acall[c].pc = "idle"
    /\ acall[c].held = 0
    /\ \E q \in 1..MaxQty :
         acall' = [acall EXCEPT ![c] = [AIdle EXCEPT !.pc = "wait", !.cpu = q]]
    /\ mrace' = IF \E d \in Callers \ {c} : acall[d].pc = "wait"
                THEN [on |-> TRUE, avail |-> src.availableCPU]
                ELSE mrace
    /\ UNCHANGED <<mx, src>>
    /\ UNCHANGED <<phase, maxVMsLimit, availableVMSlots, machines, ctxCancelled,
                   operationError, lastOp, classAvail, dir, storeVars, crashVars, laterVars>>

\* the manager lock is taken; CPU.Allocate computes newCPU
AllocLock(c) ==
    /\ acall[c].pc = "wait"
    /\ mx = MxFree
    /\ mx' = c
    /\ acall' = [acall EXCEPT ![c].pc = "charge",
                              ![c].newCPU = src.availableCPU - acall[c].cpu]
    /\ UNCHANGED <<mrace, src>>
    /\ UNCHANGED <<phase, maxVMsLimit, availableVMSlots, machines, ctxCancelled,
                   operationError, lastOp, classAvail, dir, storeVars, crashVars, laterVars>>

\* CPU.Allocate refuses or stores newCPU; the lock is released
AllocCharge(c) ==
    /\ acall[c].pc = "charge"
    /\ IF CPUShort(acall[c].newCPU)
       THEN /\ acall' = [acall EXCEPT ![c].pc = "done",
                                      ![c].err = ErrResourceNotAvailable]
            /\ UNCHANGED src
       ELSE /\ acall' = [acall EXCEPT ![c].pc = "done", ![c].held = acall[c].cpu]
            /\ src' = [src EXCEPT !.availableCPU = acall[c].newCPU]
    /\ mx' = MxFree
    /\ UNCHANGED mrace
    /\ UNCHANGED <<phase, maxVMsLimit, availableVMSlots, machines, ctxCancelled,
                   operationError, lastOp, classAvail, dir, storeVars, crashVars, laterVars>>

\* The caller takes the result
AllocReturn(c) ==
    /\ acall[c].pc = "done"
    /\ acall' = [acall EXCEPT ![c].pc = "idle"]
    /\ mrace' = NoPair
    /\ UNCHANGED <<mx, src>>
    /\ UNCHANGED <<phase, maxVMsLimit, availableVMSlots, machines, ctxCancelled,
                   operationError, lastOp, classAvail, dir, storeVars, crashVars, laterVars>>

\* Deallocate of what the caller's machine holds, under the lock
AllocRelease(c) ==
    /\ acall[c].pc = "idle"
    /\ acall[c].held > 0
    /\ mx = MxFree
    /\ src' = [src EXCEPT !.availableCPU =
                 CPUDeallocate(src.availableCPU, Single(ResourceCPU, acall[c].held)).avail]
    /\ acall' = [acall EXCEPT ![c] = AIdle]
    /\ UNCHANGED <<mx, mrace>>
    /\ UNCHANGED <<phase, maxVMsLimit, availableVMSlots, machines, ctxCancelled,
                   operationError, lastOp, classAvail, dir, storeVars, crashVars, laterVars>>

-----------------------------------------------------------------------------
(* The PCI source: pools of addresses per resource name *)

PciGpu  == "gpu.vendor/gpu"
PciFpga == "fpga.vendor/fpga"

PCINames == {PciGpu, PciFpga}

\* PCI.Init found these addresses under each catalogued name
PCIPool(r) == [i \in 1..MaxAddrs |-> <<r, i>>]

\* requiredResources of a PCI call: catalogued names and a foreign one
PCIRequired ==
    UNION {[D -> 1..MaxAddrs] : D \in (SUBSET (PCINames \cup {ResourceCPU})) \ {{}}}

\* First pass of PCI.Allocate: some required pool has too few free addresses
PCIShort(devs, required) ==
    \E r \in DOMAIN required \cap DOMAIN devs : Len(devs[r]) < required[r]

\* Second pass: the first required[r] addresses of each pool, in the order the
\* map is ranged over; the pool keeps the rest
RECURSIVE allocatePCIAddress(_, _, _, _, _)
allocatePCIAddress(devs, required, ord, i, acc) ==
    IF i > Len(ord)
    THEN [devices |-> devs, pci |-> acc]
    ELSE LET r == ord[i]
             q == required[r]
         IN  IF r \in DOMAIN devs
             THEN allocatePCIAddress(
                      [devs EXCEPT ![r] = SubSeq(devs[r], q + 1, Len(devs[r]))],
                      required, ord, i + 1,
                      acc \o [k \in 1..q |-> [Addr |-> devs[r][k], Name |-> r]])
             ELSE allocatePCIAddress(devs, required, ord, i + 1, acc)

\* A single pass that takes from each pool as it checks it
RECURSIVE PCIAllocateOnePass(_, _, _, _, _)
PCIAllocateOnePass(devs, required, ord, i, acc) ==
    IF i > Len(ord)
    THEN [err |-> Nil, devices |-> devs, pci |-> acc, written |-> TRUE,
          allocated |-> Restrict(required, DOMAIN devs)]
    ELSE LET r == ord[i]
             q == required[r]
         IN  IF r \notin DOMAIN devs
             THEN PCIAllocateOnePass(devs, required, ord, i + 1, acc)
             ELSE IF Len(devs[r]) < q
             THEN [err |-> ErrResourceNotAvailable, devices |-> devs, pci |-> <<>>,
                   written |-> FALSE, allocated |-> EmptyList]
             ELSE PCIAllocateOnePass(
                      [devs EXCEPT ![r] = SubSeq(devs[r], q + 1, Len(devs[r]))],
                      required, ord, i + 1,
                      acc \o [k \in 1..q |-> [Addr |-> devs[r][k], Name |-> r]])

\* PCI.Allocate; i and acc are where the second pass starts
PCIAllocate(devs, required, ord, i, acc) ==
    IF PCIShort(devs, required)
    THEN [err |-> ErrResourceNotAvailable, devices |-> devs, pci |-> <<>>,
          written |-> FALSE, allocated |-> EmptyList]
    ELSE LET r == allocatePCIAddress(devs, required, ord, i, acc)
         IN  [err |-> Nil, devices |-> r.devices, pci |-> r.pci, written |-> TRUE,
              allocated |-> Restrict(required, DOMAIN devs)]

\* Every address of the machine goes back to the end of its pool
RECURSIVE deallocatePCIAddress(_, _)
deallocatePCIAddress(devs, list) ==
    IF list = <<>>
    THEN devs
    ELSE LET device == Head(list)
         IN  deallocatePCIAddress(
                 IF device.Name \in DOMAIN devs
                 THEN [devs EXCEPT ![device.Name] = Append(@, device.Addr)]
                 ELSE devs,
                 Tail(list))

NoPCICall == [kind |-> "none", err |-> Nil, short |-> FALSE, fits |-> FALSE]

PCIInit ==
    /\ devices = [r \in PCINames |-> PCIPool(r)]
    /\ pciDevices = [m \in MachineIds |-> <<>>]
    /\ pciLast = NoPCICall

\* PCI.Allocate(machine, required) for a machine that holds no device
PCIAllocateCall(m) ==
    /\ pciDevices[m] = <<>>
    /\ \E required \in PCIRequired : \E ord \in Orders(DOMAIN required) :
         LET r == PCIAllocate(devices, required, ord, 1, <<>>)
         IN  /\ devices' = r.devices
             /\ pciDevices' = IF r.written
                              THEN [pciDevices EXCEPT ![m] = r.pci]
                              ELSE pciDevices
             /\ pciLast' = [kind  |-> "Allocate",
                            err   |-> r.err,
                            short |-> PCIShort(devices, required),
                            fits  |-> \E n \in DOMAIN required \cap DOMAIN devices :
                                         Len(devices[n]) >= required[n]]
    /\ UNCHANGED exceptPCI

\* PCI.Deallocate(machine, required) for a machine that holds devices
PCIDeallocateCall(m) ==
    /\ pciDevices[m] # <<>>
    /\ devices' = deallocatePCIAddress(devices, pciDevices[m])
    /\ pciDevices' = [pciDevices EXCEPT ![m] = <<>>]
    /\ pciLast' = [NoPCICall EXCEPT !.kind = "Deallocate"]
    /\ UNCHANGED exceptPCI

-----------------------------------------------------------------------------
(* Configuration and startup of the resource manager *)

SourceHugepages == "hugepages"
SourceMellanox  == "mellanox"

ResourceHugepages == "hugepages"

ErrManagerAlreadyInitialized == "manager is already initialized"
ErrManagerSourcesMissing     == "any source wasn't registered"
ErrCommonResources           == "common resources"
ErrSourceInit                == "source init failed"
ErrClassResourceMissing      == "required resource is missing in machine class"

\* What GetSource can build
AllSources == {SourceCPU, SourceMemory, SourceHugepages, SourceNic, SourceMellanox}

\* Hugepages.Init without memory among its names
InitClaimsApart(s) ==
    CASE s = SourceCPU       -> {ResourceCPU}
      [] s = SourceMemory    -> {ResourceMemory}
      [] s = SourceHugepages -> {ResourceHugepages}
      [] s = SourceNic       -> {ResourceNic}
      [] s = SourceMellanox  -> {ResourceNic}

\* The set of resource names each source's Init returns
InitClaims(s) ==
    CASE s = SourceCPU       -> {ResourceCPU}
      [] s = SourceMemory    -> {ResourceMemory}
      [] s = SourceHugepages -> {ResourceMemory, ResourceHugepages}
      [] s = SourceNic       -> {ResourceNic}
      [] s = SourceMellanox  -> {ResourceNic}

\* The sources whose Init probes the host and can fail; NIC.Init cannot
Probing == AllSources \ {SourceNic}

NoSource == "none"

\* setMachineClasses: no classes, classes with cpu and memory, a class without cpu
ClassFiles == {"none", "valid", "nocpu"}

Loggers == {"default", "named"}

NewManager ==
    [initialized        |-> FALSE,
     sources            |-> {},
     registredResources |-> [r \in {} |-> NoSource],
     machineClasses     |-> "none",
     log                |-> "default",
     maxVMsLimit        |-> 0,
     availableVMSlots   |-> 0,
     availableCPU       |-> 0]

\* Startup step 2: Init of each source in the order the map is ranged over;
\* a failing probe or a name that is already in the index stops it
RECURSIVE registerEach(_, _, _, _, _)
registerEach(ord, i, failing, index, inited) ==
    IF i > Len(ord)
    THEN [err |-> Nil, index |-> index, inited |-> inited]
    ELSE LET s == ord[i] IN
         IF s = failing
         THEN [err |-> ErrSourceInit, index |-> index, inited |-> inited]
         ELSE IF InitClaims(s) \cap DOMAIN index # {}
         THEN [err |-> ErrCommonResources, index |-> index, inited |-> inited \cup {s}]
         ELSE registerEach(ord, i + 1, failing,
                           [r \in DOMAIN index \cup InitClaims(s) |->
                               IF r \in InitClaims(s) THEN s ELSE index[r]],
                           inited \cup {s})

\* rm.initialize with no persisted machine
mngStartup(c, ord, failing) ==
    IF c.initialized
    THEN [err |-> ErrManagerAlreadyInitialized, mng |-> c, inited |-> {}]
    ELSE IF c.sources = {}
    THEN [err |-> ErrManagerSourcesMissing, mng |-> c, inited |-> {}]
    ELSE LET r == registerEach(ord, 1, failing, c.registredResources, {}) IN
         IF r.err # Nil
         THEN [err |-> r.err, mng |-> c, inited |-> r.inited]
         ELSE IF c.machineClasses = "nocpu"
         THEN [err |-> ErrClassResourceMissing, mng |-> c, inited |-> r.inited]
         ELSE [err |-> Nil,
               mng |-> [c EXCEPT !.initialized = TRUE,
                                 !.registredResources = r.index,
                                 !.availableVMSlots = c.maxVMsLimit,
                                 !.availableCPU = IF SourceCPU \in c.sources
                                                  THEN CPUInit ELSE 0],
               inited |-> r.inited]

\* rm.addSource
addSource(c, s) ==
    IF c.initialized
    THEN [err |-> ErrManagerAlreadyInitialized, mng |-> c]
    ELSE [err |-> Nil, mng |-> [c EXCEPT !.sources = @ \cup {s}]]

\* Registers the source whether or not the manager is initialized
AddSourceUnguarded(c, s) ==
    [err |-> Nil, mng |-> [c EXCEPT !.sources = @ \cup {s}]]

\* manager.AddSource forwards to the manager
AddSource(c, s) == addSource(c, s)

\* rm.setLogger
setLogger(c, l) ==
    IF c.initialized
    THEN [err |-> ErrManagerAlreadyInitialized, mng |-> c]
    ELSE [err |-> Nil, mng |-> [c EXCEPT !.log = l]]

SetLogger(c, l) == setLogger(c, l)

\* rm.setMachineClasses
setMachineClasses(c, f) ==
    IF c.initialized
    THEN [err |-> ErrManagerAlreadyInitialized, mng |-> c]
    ELSE [err |-> Nil, mng |-> [c EXCEPT !.machineClasses = f]]

SetMachineClasses(c, f) == setMachineClasses(c, f)

\* rm.setVMLimit
setVMLimit(c, n) ==
    IF c.initialized
    THEN [err |-> ErrManagerAlreadyInitialized, mng |-> c]
    ELSE [err |-> Nil, mng |-> [c EXCEPT !.maxVMsLimit = n]]

SetVMLimit(c, n) == setVMLimit(c, n)

ConfigCalls == {"AddSource", "SetLogger", "SetMachineClasses", "SetVMLimit"}

NoCfgCall == [kind |-> "none", err |-> Nil, inited |-> {}, was |-> FALSE]

\* The call just made: its result, the sources whose Init returned their
\* names, and whether the manager was initialized when it was made
CfgCall(kind, err, inited) ==
    [kind |-> kind, err |-> err, inited |-> inited, was |-> cfg.initialized]

CfgInit ==
    /\ cfg = NewManager
    /\ cfgLast = NoCfgCall

\* The process goes on until an Initialize fails
CfgRunning == ~(cfgLast.kind = "Initialize" /\ cfgLast.err # Nil /\ ~cfgLast.was)

CfgAddSource ==
    /\ CfgRunning
    /\ \E s \in AllSources :
         LET r == AddSource(cfg, s) IN
         /\ cfg' = r.mng
         /\ cfgLast' = CfgCall("AddSource", r.err, {})
    /\ UNCHANGED exceptCfg

CfgSetLogger ==
    /\ CfgRunning
    /\ \E l \in Loggers :
         LET r == SetLogger(cfg, l) IN
         /\ cfg' = r.mng
         /\ cfgLast' = CfgCall("SetLogger", r.err, {})
    /\ UNCHANGED exceptCfg

CfgSetMachineClasses ==
    /\ CfgRunning
    /\ \E f \in ClassFiles :
         LET r == SetMachineClasses(cfg, f) IN
         /\ cfg' = r.mng
         /\ cfgLast' = CfgCall("SetMachineClasses", r.err, {})
    /\ UNCHANGED exceptCfg

CfgSetVMLimit ==
    /\ CfgRunning
    /\ \E n \in 0..MaxVMLimit :
         LET r == SetVMLimit(cfg, n) IN
         /\ cfg' = r.mng
         /\ cfgLast' = CfgCall("SetVMLimit", r.err, {})
    /\ UNCHANGED exceptCfg

\* manager.Initialize, listMachines returning no machine
CfgInitialize ==
    /\ CfgRunning
    /\ \E ord \in Orders(cfg.sources) :
       \E failing \in {NoSource} \cup (cfg.sources \cap Probing) :
         LET r == mngStartup(cfg, ord, failing) IN
         /\ cfg' = r.mng
         /\ cfgLast' = CfgCall("Initialize", r.err, r.inited)
    /\ UNCHANGED exceptCfg

\* After startup: Allocate of cpu for a machine, which moves the accounting
CfgAllocate ==
    /\ CfgRunning
    /\ cfg.initialized
    /\ ResourceCPU \in DOMAIN cfg.registredResources
    /\ \E q \in 1..MaxQty :
         LET r == CPUAllocate(cfg.availableCPU, Single(ResourceCPU, q)) IN
         /\ cfg' = [cfg EXCEPT !.availableCPU = r.avail]
         /\ cfgLast' = CfgCall("Allocate", r.err, {})
    /\ UNCHANGED exceptCfg

-----------------------------------------------------------------------------
(* The watch bus of the store: Store.Watch, Store.enqueue and the writers    *)
(* that publish under the per-ID lock.                                        *)

\* Store.Watch: const bufferSize
bufferSize == 10

Subs == {"w1", "w2"}

\* An object written before the behaviour starts
EarlierId == "m0"

WatchedIds == Ids \cup {EarlierId}

\* A subscriber without a watch
NoWatch == [st |-> "none", events |-> <<>>]

\* store.WatchEvent: its type and the object's id and resource version; seq
\* is the place of the write among the published writes of that id and gen
\* counts the Creates of that id
WatchEvent(type, obj, at) ==
    [type |-> type, id |-> obj.id, version |-> obj.version,
     seq |-> at.seq, gen |-> at.gen]

\* What a subscriber that has not read for a while holds: the earlier object's
\* Created event and its Updated events, one short of a full buffer
Backlog ==
    [i \in 1..(bufferSize - 1) |->
        [type    |-> IF i = 1 THEN WatchEventTypeCreated ELSE WatchEventTypeUpdated,
         id      |-> EarlierId,
         version |-> i,
         seq     |-> i,
         gen     |-> 1]]

\* A send that makes room by dropping the oldest event of a full buffer
chanSendEvict(q, evt) ==
    IF Len(q) < bufferSize THEN Append(q, evt) ELSE Append(Tail(q), evt)

\* A send that puts the event in front of the buffered ones
chanSendFront(q, evt) ==
    IF Len(q) < bufferSize THEN <<evt>> \o q ELSE q

\* select { case handler.events <- evt: default: }
chanSend(q, evt) ==
    IF Len(q) < bufferSize THEN Append(q, evt) ELSE q

\* <-w.events: the oldest event of the buffer
chanRecv(q) == [evt |-> Head(q), rest |-> Tail(q)]

NotPublished == [seq |-> 0, gen |-> 0]

WIdle == [pc |-> "idle", evt |-> WatchEvent(NoEvent, ZeroObj, NotPublished), todo |-> {},
          got |-> {}, missed |-> {}]

\* What a subscriber took last for each id, and how many events of that id
NoSeen == [id \in WatchedIds |-> [seq |-> 0, gen |-> 0, version |-> 0, count |-> 0]]

WatchInit ==
    /\ watches \in {[s \in Subs |-> NoWatch],
                    [s \in Subs |-> IF s = "w1" THEN [st |-> "open", events |-> Backlog]
                                    ELSE NoWatch]}
    /\ wcall = [p \in Procs |-> WIdle]
    /\ committed = [id \in Ids |-> NotPublished]
    /\ seen = [s \in Subs |-> NoSeen]

Published == committed["m1"].seq + committed["m2"].seq

\* Store.Watch: a new watch with an empty buffer joins s.watches
Watch(s) ==
    /\ watches[s].st = "none"
    /\ watches' = [watches EXCEPT ![s] = [st |-> "open", events |-> <<>>]]
    /\ seen' = [seen EXCEPT ![s] = NoSeen]
    /\ UNCHANGED <<wcall, committed, dir, idMu>>
    /\ UNCHANGED exceptWatch

\* The subscriber closes its handle: the watch leaves s.watches.  A running
\* enqueue whose handler list still names it sends into a buffer nobody
\* reads, so the closed watch is taken off that list here.
WatchStop(s) ==
    /\ watches[s].st = "open"
    /\ watches' = [watches EXCEPT ![s] = NoWatch]
    /\ seen' = [seen EXCEPT ![s] = NoSeen]
    /\ wcall' = [p \in Procs |-> [wcall[p] EXCEPT !.todo = @ \ {s}]]
    /\ UNCHANGED <<committed, dir, idMu>>
    /\ UNCHANGED exceptWatch

\* The subscriber takes the next event from its channel
WatchReceive(s) ==
    /\ watches[s].st = "open"
    /\ watches[s].events # <<>>
    /\ LET r == chanRecv(watches[s].events) IN
       /\ watches' = [watches EXCEPT ![s].events = r.rest]
       /\ seen' = [seen EXCEPT ![s][r.evt.id] =
                      [seq |-> r.evt.seq, gen |-> r.evt.gen,
                       version |-> r.evt.version, count |-> @.count + 1]]
    /\ UNCHANGED <<wcall, committed, dir, idMu>>
    /\ UNCHANGED exceptWatch

\* Create, Update or Delete up to its call of enqueue: the lock, s.get, the
\* write, and the list of handlers that enqueue ranges over.  A call that
\* publishes nothing returns and unlocks at once.
WatchWrite(p) ==
    /\ wcall[p].pc = "idle"
    /\ Published < MaxPublished
    /\ \E op \in {"Create", "Update", "Delete"} :
       \E obj \in (CASE op = "Create" -> CreateArgs
                     [] op = "Update" -> UpdateArgs
                     [] op = "Delete" -> DeleteArgs) :
         /\ LockFree(obj.id)
         /\ LET old == get(dir, obj.id)
                r == CASE op = "Create" -> Create(dir, obj, old)
                       [] op = "Update" -> Update(dir, obj, old)
                       [] op = "Delete" -> Delete(dir, obj.id, old)
                at == [seq |-> committed[obj.id].seq + 1,
                       gen |-> committed[obj.id].gen + (IF op = "Create" THEN 1 ELSE 0)]
            IN  /\ dir' = r.dir
                /\ IF r.event = NoEvent
                   THEN UNCHANGED <<wcall, committed, idMu>>
                   ELSE /\ committed' = [committed EXCEPT ![obj.id] = at]
                        /\ idMu' = [idMu EXCEPT ![obj.id] = TRUE]
                        /\ wcall' = [wcall EXCEPT ![p] =
                              [pc     |-> "enqueue",
                               evt    |-> WatchEvent(r.event, get(r.dir, obj.id).obj, at),
                               todo   |-> {s \in Subs : watches[s].st = "open"},
                               got    |-> {},
                               missed |-> {}]]
    /\ UNCHANGED <<watches, seen>>
    /\ UNCHANGED exceptWatch

\* One round of the loop of enqueue: the send to one handler, or the default
\* branch when its buffer is full
WatchSend(p) ==
    /\ wcall[p].pc = "enqueue"
    /\ \E h \in wcall[p].todo :
         LET q    == watches[h].events
             full == Len(q) >= bufferSize
         IN  /\ watches' = [watches EXCEPT ![h].events =
                               IF watches[h].st = "open" THEN chanSend(q, wcall[p].evt) ELSE q]
             /\ wcall' = [wcall EXCEPT ![p].todo = @ \ {h},
                                       ![p].got = IF full THEN @ ELSE @ \cup {h},
                                       ![p].missed = IF full THEN @ \cup {h} ELSE @]
    /\ UNCHANGED <<seen, committed, dir, idMu>>
    /\ UNCHANGED exceptWatch

\* enqueue has gone through the handlers; the deferred Unlock
WatchUnlock(p) ==
    /\ wcall[p].pc = "enqueue"
    /\ wcall[p].todo = {}
    /\ idMu' = [idMu EXCEPT ![wcall[p].evt.id] = FALSE]
    /\ wcall' = [wcall EXCEPT ![p] = WIdle]
    /\ UNCHANGED <<watches, seen, committed, dir>>
    /\ UNCHANGED exceptWatch

-----------------------------------------------------------------------------
(* The event ring: EventStore with AddEvent, RemoveExpiredEvents, ListEvents *)

NilEvent == [set |-> FALSE, EventTime |-> 0, Message |-> 0]

\* time.Now().Unix(): the whole seconds of a time given in ticks
Unix(t) == t \div TicksPerSecond

\* The event AddEvent builds: the caller's message and the seconds of now
RingEvent(msg, t) == [set |-> TRUE, EventTime |-> Unix(t), Message |-> msg]

\* NewEventStore(log, maxEvents, eventTTL)
NewEventStore(n, ttl) ==
    [maxEvents |-> n,
     events    |-> [i \in 0..(n - 1) |-> NilEvent],
     eventTTL  |-> ttl,
     head      |-> 0,
     count     |-> 0]

\* An AddEvent that counts the new event also when the ring is full
AddEventUncapped(e, valid, msg, t) ==
    IF ~valid THEN [es |-> e, err |-> "metadata", panic |-> FALSE]
    ELSE IF e.maxEvents = 0 THEN [es |-> e, err |-> Nil, panic |-> TRUE]
    ELSE LET index == (e.head + e.count) % e.maxEvents
         IN  [es |-> [e EXCEPT !.count = @ + 1,
                               !.events = [@ EXCEPT ![index] = RingEvent(msg, t)]],
              err |-> Nil, panic |-> FALSE]

\* An AddEvent that leaves the head where it is when the ring is full
AddEventKeepHead(e, valid, msg, t) ==
    IF ~valid THEN [es |-> e, err |-> "metadata", panic |-> FALSE]
    ELSE IF e.maxEvents = 0 THEN [es |-> e, err |-> Nil, panic |-> TRUE]
    ELSE LET index == (e.head + e.count) % e.maxEvents
             moved == IF e.count = e.maxEvents THEN e
                      ELSE [e EXCEPT !.count = @ + 1]
         IN  [es |-> [moved EXCEPT !.events = [@ EXCEPT ![index] = RingEvent(msg, t)]],
              err |-> Nil, panic |-> FALSE]

\* EventStore.AddEvent of message msg at time t; valid is whether
\* GetObjectMetadata accepts the metadata.  With maxEvents = 0 the index
\* computation divides by zero.
AddEvent(e, valid, msg, t) ==
    IF ~valid THEN [es |-> e, err |-> "metadata", panic |-> FALSE]
    ELSE IF e.maxEvents = 0 THEN [es |-> e, err |-> Nil, panic |-> TRUE]
    ELSE LET index == (e.head + e.count) % e.maxEvents
             moved == IF e.count = e.maxEvents
                      THEN [e EXCEPT !.head = (e.head + 1) % e.maxEvents]
                      ELSE [e EXCEPT !.count = @ + 1]
         IN  [es |-> [moved EXCEPT !.events = [@ EXCEPT ![index] = RingEvent(msg, t)]],
              err |-> Nil, panic |-> FALSE]

\* The comparison turned around: Before(now) in place of After(now)
NotExpiredBefore(event, ttl, t) == event.EventTime * TicksPerSecond + ttl < t

\* time.Unix(event.Spec.EventTime, 0).Add(es.eventTTL).After(now)
NotExpired(event, ttl, t) == event.EventTime * TicksPerSecond + ttl > t

\* A RemoveExpiredEvents that looks at the head once and returns
RemoveExpiredOne(e, t) ==
    IF e.count = 0 THEN e
    ELSE LET index == e.head % e.maxEvents
         IN  IF NotExpired(e.events[index], e.eventTTL, t)
             THEN e
             ELSE [e EXCEPT !.events = [@ EXCEPT ![index] = NilEvent],
                            !.head = (e.head + 1) % e.maxEvents,
                            !.count = @ - 1]

\* EventStore.RemoveExpiredEvents at time t: from the head, while the oldest
\* event's time plus the TTL is not after t
RECURSIVE RemoveExpiredEvents(_, _)
RemoveExpiredEvents(e, t) ==
    IF e.count = 0 THEN e
    ELSE LET index == e.head % e.maxEvents
         IN  IF NotExpired(e.events[index], e.eventTTL, t)
             THEN e
             ELSE RemoveExpiredEvents(
                      [e EXCEPT !.events = [@ EXCEPT ![index] = NilEvent],
                                !.head = (e.head + 1) % e.maxEvents,
                                !.count = @ - 1],
                      t)

\* EventStore.ListEvents: the clones of the count events from the head on
ListEvents(e) ==
    [i \in 1..e.count |-> e.events[(e.head + (i - 1)) % e.maxEvents]]

NoRingCall == [kind |-> "none", listed |-> 0, overrode |-> FALSE]

NoRingHist == [adds |-> 0, removed |-> 0]

RingInit ==
    /\ \E n \in 0..MaxRing : es = NewEventStore(n, EventTTL)
    /\ clock = 0
    /\ ringLast = NoRingCall
    /\ collector = "idle"
    /\ ringHist = NoRingHist

\* The process has not stopped in a panic
RingRunning == ringLast.kind # "panic"

\* AddEvent by any caller, under es.mutex for the whole call.  The message
\* of the n-th accepted event is n, which tells the events apart.
RingAdd ==
    /\ RingRunning
    /\ ringHist.adds < MaxAdds
    /\ \E valid \in BOOLEAN :
         LET r == AddEvent(es, valid, ringHist.adds + 1, clock) IN
         /\ es' = r.es
         /\ ringLast' = [kind     |-> IF r.panic THEN "panic" ELSE "AddEvent",
                         listed   |-> 0,
                         overrode |-> valid /\ ~r.panic /\ es.count = es.maxEvents]
         /\ ringHist' = IF valid /\ ~r.panic
                        THEN [ringHist EXCEPT !.adds = @ + 1]
                        ELSE ringHist
    /\ UNCHANGED <<clock, collector>>
    /\ UNCHANGED exceptRing

\* Start(ctx, ...): wait.UntilWithContext begins to call RemoveExpiredEvents
RingStart ==
    /\ RingRunning
    /\ collector = "idle"
    /\ collector' = "running"
    /\ UNCHANGED <<es, clock, ringLast, ringHist>>
    /\ UNCHANGED exceptRing

\* ctx is cancelled: wait.UntilWithContext returns
RingCancel ==
    /\ RingRunning
    /\ collector = "running"
    /\ collector' = "stopped"
    /\ UNCHANGED <<es, clock, ringLast, ringHist>>
    /\ UNCHANGED exceptRing

\* One round of the garbage collector started by Start, under es.mutex
RingExpire ==
    /\ RingRunning
    /\ collector = "running"
    /\ es' = RemoveExpiredEvents(es, clock)
    /\ ringLast' = [NoRingCall EXCEPT !.kind = "RemoveExpiredEvents"]
    /\ ringHist' = [ringHist EXCEPT !.removed = @ + (es.count - es'.count)]
    /\ UNCHANGED <<clock, collector>>
    /\ UNCHANGED exceptRing

\* ListEvents, under es.mutex
RingList ==
    /\ RingRunning
    /\ ringLast' = [NoRingCall EXCEPT !.kind = "ListEvents",
                                      !.listed = Len(ListEvents(es))]
    /\ UNCHANGED <<es, clock, collector, ringHist>>
    /\ UNCHANGED exceptRing

\* A tick of the clock passes
RingTick ==
    /\ RingRunning
    /\ clock < MaxClock
    /\ clock' = clock + 1
    /\ UNCHANGED <<es, ringLast, collector, ringHist>>
    /\ UNCHANGED exceptRing

-----------------------------------------------------------------------------
(* Machine classes: what the sources make of a class's capabilities *)

NoClassCall == [kind |-> "none"]

NoClassResult == [done |-> 0]

\* Hugepages.Modify that rounds the page count down
HugepagesModifyFloor(resources, pageSize, inf) ==
    IF ~Has(resources, ResourceMemory)
    THEN [err |-> "cannot found memory in resources", resources |-> resources]
    ELSE IF resources[ResourceMemory] <= 0
    THEN [err |-> "invalid value of memory resource", resources |-> resources]
    ELSE LET hugepages == IF pageSize = 0 THEN inf
                          ELSE resources[ResourceMemory] \div pageSize
         IN  [err |-> Nil,
              resources |-> Merge(resources,
                                  Merge(Single(ResourceHugepages, hugepages),
                                        Single(ResourceMemory, hugepages * pageSize)))]

\* Hugepages.Modify on a class's resources, for the page size Init read.
\* math.Ceil(size / float64(pageSize)) is exact for sizes below 2^53.  With
\* pageSize = 0 the quotient is +Inf and uint64(+Inf) is whatever the
\* platform makes of it: inf.
HugepagesModify(resources, pageSize, inf) ==
    IF ~Has(resources, ResourceMemory)
    THEN [err |-> "cannot found memory in resources", resources |-> resources]
    ELSE IF resources[ResourceMemory] <= 0
    THEN [err |-> "invalid value of memory resource", resources |-> resources]
    ELSE LET hugepages == IF pageSize = 0 THEN inf
                          ELSE (resources[ResourceMemory] + pageSize - 1) \div pageSize
         IN  [err |-> Nil,
              resources |-> Merge(resources,
                                  Merge(Single(ResourceHugepages, hugepages),
                                        Single(ResourceMemory, hugepages * pageSize)))]

\* mcr.roundHugepagesUp: MemoryBytes of the class afterwards; the registry
\* calls it only for a page size other than 0
roundHugepagesUp(MemoryBytes, hugepageSize) ==
    ((MemoryBytes + hugepageSize - 1) \div hugepageSize) * hugepageSize

\* What uint64(+Inf) may come to
InfCounts == {0, MaxClassMemory + 1}

\* The capabilities a class file declares: cpu, and memory or not
DeclaredLists ==
    {Single(ResourceCPU, 1)}
        \cup {Merge(Single(ResourceCPU, 1), Single(ResourceMemory, m)) :
                 m \in 0..MaxClassMemory}

\* The calls of Hugepages.Modify
ModifyCalls ==
    [kind : {"Modify"}, resources : DeclaredLists, pageSize : 0..MaxPageSize]

\* The registered-resource index the sources in S give
IndexOf(S) == UNION {InitClaims(x) : x \in S}

ErrRequiredCPU    == "required resource cpu is missing in machine class file"
ErrRequiredMemory == "required resource memory is missing in machine class file"

\* The class file is read: every class has to declare cpu and memory
RECURSIVE loadMachineClassesFile(_, _)
loadMachineClassesFile(file, i) ==
    IF i > Len(file) THEN Nil
    ELSE IF ~Has(file[i], ResourceCPU) THEN ErrRequiredCPU
    ELSE IF ~Has(file[i], ResourceMemory) THEN ErrRequiredMemory
    ELSE loadMachineClassesFile(file, i + 1)

\* modifyResources: Modify of every source on the working copy; of the
\* sources only Hugepages changes the list
modifyResources(resources, S, pageSize, inf) ==
    IF SourceHugepages \in S
    THEN HugepagesModify(resources, pageSize, inf)
    ELSE [err |-> Nil, resources |-> resources]

\* A check that lets every class through
classSupportedAny(resources, index) == TRUE

\* Every resource of the class has a source in the index
classSupported(resources, index) == DOMAIN resources \subseteq index

\* The classes of the file in their order: modified, then kept when
\* supported and dropped when not
RECURSIVE modifyEach(_, _, _, _, _, _)
modifyEach(file, i, S, pageSize, inf, kept) ==
    IF i > Len(file) THEN [err |-> Nil, machineClasses |-> kept]
    ELSE LET m == modifyResources(file[i], S, pageSize, inf) IN
         IF m.err # Nil THEN [err |-> m.err, machineClasses |-> <<>>]
         ELSE modifyEach(file, i + 1, S, pageSize, inf,
                         IF classSupported(m.resources, IndexOf(S))
                         THEN Append(kept, m.resources) ELSE kept)

\* rm.initMachineClasses with the sources S registered
initMachineClasses(file, S, pageSize, inf) ==
    IF loadMachineClassesFile(file, 1) # Nil
    THEN [err |-> loadMachineClassesFile(file, 1), machineClasses |-> <<>>]
    ELSE modifyEach(file, 1, S, pageSize, inf, <<>>)

\* What a class of the file declares: cpu and memory, one of them only,
\* both with a resource no source knows, both with a nic
FileClasses ==
    {Merge(Single(ResourceCPU, 1), Single(ResourceMemory, m)) : m \in {1, MaxClassMemory}}
        \cup {Single(ResourceCPU, 1), Single(ResourceMemory, 1)}
        \cup {Merge(Merge(Single(ResourceCPU, 1), Single(ResourceMemory, 1)),
                    Single(r, 1)) : r \in {"unsupported", ResourceNic}}

\* Class files of up to two classes
ClassFileContents ==
    {<<>>} \cup {<<c>> : c \in FileClasses}
        \cup {<<c, d>> : c \in FileClasses, d \in FileClasses}

\* The sources registered when the classes are loaded
LoadSources ==
    {{}, {SourceCPU}, {SourceCPU, SourceMemory}, {SourceCPU, SourceHugepages},
     {SourceCPU, SourceMemory, SourceNic}}

LoadCalls ==
    [kind : {"Load"}, file : ClassFileContents, sources : LoadSources,
     pageSize : 1..MaxPageSize]

\* What a source may answer: that it does not cap the class, a count
\* below zero, zero, one, the largest
CountValues == {QuantityCountIgnore, 0 - MaxCount, 0, 1, MaxCount}

\* The resources a class may hold after the sources' Modify
ClassNames == {ResourceCPU, ResourceMemory, ResourceHugepages}

\* The calls of calculateMachineClassQuantity: the class's resources, the
\* registered resources with their sources' answers, the limit, the slots
CalculateCalls ==
    UNION {[kind : {"Calculate"},
            class : {{ResourceCPU, ResourceMemory}, ClassNames},
            counts : [R -> CountValues],
            limit : 0..MaxVMLimit,
            slots : 0..MaxSlots] :
           R \in {{ResourceCPU}, {ResourceCPU, ResourceMemory}, ClassNames}}

ClassInit ==
    /\ classIn \in ModifyCalls \cup CalculateCalls \cup LoadCalls
    /\ classOut = NoClassResult

\* Hugepages.Modify on the class's resources, a first and a second time
ClassModify ==
    /\ classIn.kind = "Modify"
    /\ classOut.done < 2
    /\ \E inf \in InfCounts :
         LET before == IF classOut.done = 0 THEN classIn.resources
                       ELSE classOut.resources
             r == HugepagesModify(before, classIn.pageSize, inf)
         IN  classOut' = [done |-> classOut.done + 1, err |-> r.err,
                          resources |-> r.resources,
                          first |-> IF classOut.done = 0 THEN r
                                    ELSE classOut.first]
    /\ UNCHANGED classIn
    /\ UNCHANGED exceptClass

-----------------------------------------------------------------------------
(* The manager over the Hugepages and PCI sources.  The manager runs with no *)
(* vm limit, a live context and no operation error.                          *)

HugePagesTotal == 3      \* mem.VirtualMemory: HugePagesTotal

SourcePCI == "pci"

ErrResourceMissing == "ErrResourceMissing"

\* Hugepages.Init with options.BlockedHugepages = 0: the pages and their bytes
HugepagesInit(pageSize) ==
    [availableMemory |-> HugePagesTotal * pageSize, availableHugePages |-> HugePagesTotal]

\* Hugepages.Allocate
HugepagesAllocate(h, pageSize, requiredResources) ==
    IF ~Has(requiredResources, ResourceMemory)
    THEN [err |-> Nil, h |-> h, allocated |-> EmptyList]
    ELSE IF h.availableMemory < requiredResources[ResourceMemory]
    THEN [err |-> ErrResourceNotAvailable, h |-> h, allocated |-> EmptyList]
    ELSE IF ~Has(requiredResources, ResourceHugepages)
    THEN [err |-> ErrResourceMissing, h |-> h, allocated |-> EmptyList]
    ELSE IF h.availableHugePages < requiredResources[ResourceHugepages]
    THEN [err |-> ErrResourceNotAvailable, h |-> h, allocated |-> EmptyList]
    ELSE [err |-> Nil,
          h |-> [availableMemory |-> h.availableMemory - requiredResources[ResourceMemory],
                 availableHugePages |-> h.availableHugePages
                                           - requiredResources[ResourceHugepages]],
          allocated |-> Restrict(requiredResources, {ResourceMemory, ResourceHugepages})]

\* Hugepages.Deallocate
HugepagesDeallocate(h, requiredResources) ==
    [h |-> [availableMemory |-> h.availableMemory + Qty(requiredResources, ResourceMemory),
            availableHugePages |-> h.availableHugePages
                                      + Qty(requiredResources, ResourceHugepages)],
     released |-> DOMAIN requiredResources \cap {ResourceMemory, ResourceHugepages}]

\* PCI.Deallocate: every address of machine.Status.PCIDevices goes back, the
\* names of the list are reported released
PCIDeallocate(devs, PCIDevices, requiredResources) ==
    [devices |-> deallocatePCIAddress(devs, PCIDevices), pci |-> <<>>,
     released |-> DOMAIN requiredResources]

\* rm.registredResources once Hugepages.Init and PCI.Init returned their names
hostRegistred ==
    [r \in {ResourceMemory, ResourceHugepages} \cup PCINames |->
        IF r \in PCINames THEN SourcePCI ELSE SourceHugepages]

hostOwnedBy(source) == {r \in DOMAIN hostRegistred : hostRegistred[r] = source}

\* A machine that holds nothing; used says that the manager was asked to
\* allocate for it
NoMachine == [resources |-> EmptyList, pci |-> <<>>, used |-> FALSE]

\* What the manager holds after Hugepages.Allocate answered r
hugepagesAnswer(s, machine, r) ==
    [err |-> r.err, s |-> [s EXCEPT !.h = r.h], machine |-> machine,
     allocated |-> r.allocated]

\* What the manager holds after PCI.Allocate answered r: the call has
\* written machine.Status.PCIDevices unless it failed
pciAnswer(s, machine, r) ==
    [err |-> r.err, s |-> [s EXCEPT !.devices = r.devices],
     machine |-> IF r.written THEN [machine EXCEPT !.pci = r.pci] ELSE machine,
     allocated |-> r.allocated]

\* source.Allocate(machine, required) on the sources' fields s
hostSourceAllocate(source, s, machine, required) ==
    IF source = SourceHugepages
    THEN hugepagesAnswer(s, machine, HugepagesAllocate(s.h, s.pageSize, required))
    ELSE pciAnswer(s, machine,
                   PCIAllocate(s.devices, required,
                               CHOOSE o \in Orders(DOMAIN required) : TRUE, 1, <<>>))

\* Deallocate of every source in the set called, each with the part of list
\* it owns
hostSourcesDeallocate(s, machine, list, called) ==
    [s |-> [pageSize |-> s.pageSize,
            h |-> IF SourceHugepages \in called
                  THEN HugepagesDeallocate(
                           s.h, Restrict(list, hostOwnedBy(SourceHugepages))).h
                  ELSE s.h,
            devices |-> IF SourcePCI \in called
                        THEN PCIDeallocate(s.devices, machine.pci,
                                           Restrict(list, hostOwnedBy(SourcePCI))).devices
                        ELSE s.devices],
     machine |-> IF SourcePCI \in called THEN [machine EXCEPT !.pci = <<>>] ELSE machine,
     released |-> (IF SourceHugepages \in called
                   THEN DOMAIN list \cap hostOwnedBy(SourceHugepages) ELSE {})
                  \cup (IF SourcePCI \in called
                        THEN DOMAIN list \cap hostOwnedBy(SourcePCI) ELSE {})]

\* Step 5 of allocate over these sources: charge each (name, qty) of required
\* at its source, in the order ord; stop at the first failure
RECURSIVE hostChargeEach(_, _, _, _)
RECURSIVE hostCharged(_, _, _, _, _)
hostChargeEach(ord, i, required, st) ==
    IF i > Len(ord) THEN st
    ELSE hostCharged(ord, i, required, st,
                     hostSourceAllocate(hostRegistred[ord[i]], st.s, st.machine,
                                        Single(ord[i], required[ord[i]])))

\* What step 5 does with the answer c of one source
hostCharged(ord, i, required, st, c) ==
    IF c.err # Nil
    THEN [st EXCEPT !.err = c.err]
    ELSE hostChargeEach(ord, i + 1, required,
                        [s |-> c.s, machine |-> c.machine, err |-> Nil,
                         total |-> Merge(st.total, c.allocated)])

\* The rollback of step 5: what was charged goes back, d being the answer
\* of the sources that were charged
hostRolledBack(machine, st, d) ==
    [err |-> st.err, s |-> d.s,
     machine |-> [machine EXCEPT !.pci = d.machine.pci]]

\* Steps 5 (rollback) and 6 of allocate, st being where the charging stopped
hostSettle(machine, st) ==
    IF st.err # Nil
    THEN hostRolledBack(machine, st,
                        hostSourcesDeallocate(st.s, st.machine, st.total,
                                              {hostRegistred[n] : n \in DOMAIN st.total}))
    ELSE [err |-> Nil, s |-> st.s,
          machine |-> [machine EXCEPT !.resources = Merge(machine.resources, st.total),
                                      !.pci = st.machine.pci]]

\* rm.allocate over these sources
hostAllocate(s, machine, required, ord) ==
    IF \E name \in DOMAIN required : name \notin DOMAIN hostRegistred
    THEN [err |-> ErrResourceUnsupported, s |-> s, machine |-> machine]
    ELSE hostSettle(machine,
                    hostChargeEach(ord, 1, required,
                                   [s |-> s, machine |-> machine, err |-> Nil,
                                    total |-> EmptyList]))

\* What rm.deallocate makes of the sources' answer d
hostReleased(machine, toRelease, d) ==
    [err |-> Nil, s |-> d.s,
     machine |-> [machine EXCEPT
                     !.resources = afterRelease(machine.resources, toRelease, d.released),
                     !.pci = d.machine.pci]]

\* rm.deallocate over these sources: every source is called
hostDeallocate(s, machine, toRelease) ==
    hostReleased(machine, toRelease,
                 hostSourcesDeallocate(s, machine,
                                       Restrict(toRelease, DOMAIN hostRegistred),
                                       {SourceHugepages, SourcePCI}))

\* manager.Allocate over these sources
HostAllocate(s, machine, required, ord) ==
    IF DOMAIN required = {}
    THEN [err |-> ErrResourcesEmpty, s |-> s, machine |-> machine]
    ELSE hostAllocate(s, machine, required, ord)

\* manager.Deallocate over these sources
HostDeallocate(s, machine, deallocateResources) ==
    IF DOMAIN deallocateResources = {}
    THEN [err |-> ErrResourcesEmpty, s |-> s, machine |-> machine]
    ELSE IF ~HasMachineAllocatedResources(machine.resources)
    THEN [err |-> Nil, s |-> s, machine |-> machine]
    ELSE hostDeallocate(s, machine, deallocateResources)

\* The order in which one map with the keys D is ranged over, taken from ord
SubOrder(ord, D) == SelectSeq(ord, LAMBDA n : n \in D)

\* rm.initialize, step 4, over these sources: allocate again what each listed
\* machine holds, in the order the store lists them (by id); the first
\* failure aborts.  st.machines are the listed objects.
RECURSIVE hostReplay(_, _, _)
RECURSIVE hostReplayed(_, _, _, _, _)
hostReplay(ids, ord, st) ==
    IF ids = {} \/ st.err # Nil THEN st
    ELSE hostReplayed(ids, ord, st, CHOOSE i \in ids : \A j \in ids : i <= j,
                      hostAllocate(
                          st.s, st.machines[CHOOSE i \in ids : \A j \in ids : i <= j],
                          st.machines[CHOOSE i \in ids : \A j \in ids : i <= j].resources,
                          SubOrder(ord, DOMAIN st.machines[
                              CHOOSE i \in ids : \A j \in ids : i <= j].resources)))

\* The replay after the allocate of machine id answered r
hostReplayed(ids, ord, st, id, r) ==
    hostReplay(ids \ {id}, ord,
               [err |-> r.err, s |-> r.s,
                machines |-> [st.machines EXCEPT ![id] = r.machine]])

\* The sources after their Init: every page and every discovered address
hostSourcesInit(pageSize) ==
    [pageSize |-> pageSize, h |-> HugepagesInit(pageSize),
     devices |-> [r \in PCINames |-> PCIPool(r)]]

\* rm.initialize over these sources, listMachines returning listed
hostInitialize(pageSize, listed, ord) ==
    hostReplay(DOMAIN listed, ord,
               [err |-> Nil, s |-> hostSourcesInit(pageSize), machines |-> listed])

\* What a machine class asks of memory once Hugepages.Modify has run, what it
\* asks without it, and nothing
HostMemoryLists(pageSize) ==
    {EmptyList, Single(ResourceMemory, pageSize),
     HugepagesModify(Single(ResourceMemory, pageSize), pageSize, 0).resources}

\* What a machine asks of PCI devices: one of a name, or all of them
HostPCILists == UNION {[D -> {1, MaxAddrs}] : D \in SUBSET PCINames}

\* requiredResources of a call; one list names a resource no source owns
HostRequired(pageSize) ==
    {Merge(a, b) : a \in HostMemoryLists(pageSize), b \in HostPCILists}
    \cup {Single(ResourceCPU, 1)}

NoHostCall == [kind |-> "none", m |-> 0, err |-> Nil, list |-> EmptyList,
               machines |-> [m \in MachineIds |-> NoMachine]]

\* Nothing allocated, nothing called
HostIdle ==
    /\ hostSrc = hostSourcesInit(1)
    /\ hostMachines = [m \in MachineIds |-> NoMachine]
    /\ hostLast = NoHostCall

\* The initialized manager of a host without machines
HostInit ==
    /\ \E pageSize \in {1, MaxPageSize} : hostSrc = hostSourcesInit(pageSize)
    /\ hostMachines = [m \in MachineIds |-> NoMachine]
    /\ hostLast = NoHostCall

\* The manager serves calls unless its Initialize failed
HostRunning == ~(hostLast.kind = "Initialize" /\ hostLast.err # Nil)

\* The manager's answer r to a call becomes the state: the sources' fields,
\* and the machine as the call left it, which the server stores
hostReturn(kind, m, list, r) ==
    /\ hostSrc' = r.s
    /\ hostMachines' =
          [hostMachines EXCEPT
              ![m] = [r.machine EXCEPT !.used = @ \/ kind = "Allocate"]]
    /\ hostLast' = [NoHostCall EXCEPT !.kind = kind, !.m = m, !.list = list,
                                      !.err = r.err]

\* manager.Allocate(machine, required) for a new machine: the server
\* allocates once for a machine, when it creates it, and gives the machine
\* up when that fails
HostAllocateCall(m) ==
    /\ HostRunning
    /\ ~hostMachines[m].used
    /\ \E required \in HostRequired(hostSrc.pageSize) :
       \E ord \in Orders(DOMAIN required) :
         hostReturn("Allocate", m, required,
                    HostAllocate(hostSrc, hostMachines[m], required, ord))
    /\ UNCHANGED exceptHost

\* manager.Deallocate(machine, list) with all or some of the names the
\* machine holds, each in full
HostDeallocateCall(m) ==
    /\ HostRunning
    /\ \E D \in SUBSET DOMAIN hostMachines[m].resources :
         hostReturn("Deallocate", m, Restrict(hostMachines[m].resources, D),
                    HostDeallocate(hostSrc, hostMachines[m],
                                   Restrict(hostMachines[m].resources, D)))
    /\ UNCHANGED exceptHost

\* What manager.Initialize returned: r.machines are the listed objects after
\* the replay; the records in the store stay as they are
hostStarted(r) ==
    /\ hostSrc' = r.s
    /\ hostLast' = [NoHostCall EXCEPT !.kind = "Initialize", !.err = r.err,
                                      !.machines = r.machines]
    /\ UNCHANGED hostMachines

\* The provider starts again: manager.Initialize with the machines the store
\* lists
HostRestart ==
    /\ HostRunning
    /\ \E ord \in Orders(UNION {DOMAIN hostMachines[m].resources : m \in MachineIds}) :
         hostStarted(hostInitialize(hostSrc.pageSize, hostMachines, ord))
    /\ UNCHANGED exceptHost

-----------------------------------------------------------------------------
(* Specifications *)

MgrIdle ==
    /\ phase = "new"
    /\ maxVMsLimit = 0
    /\ availableVMSlots = 0
    /\ src = [availableCPU |-> 0, availableMemory |-> 0, availableNics |-> NewSourceNIC]
    /\ machines = [m \in MachineIds |-> EmptyList]
    /\ ctxCancelled = FALSE
    /\ operationError = Nil
    /\ lastOp = NoOp
    /\ classAvail = NoAvail

StoreIdle == StoreInit

CrashIdle == wr = WrIdle /\ boot = BootRun

\* No subscriber and no writer of the watch bus
WatchIdle ==
    /\ watches = [s \in Subs |-> NoWatch]
    /\ wcall = [p \in Procs |-> WIdle]
    /\ committed = [id \in Ids |-> NotPublished]
    /\ seen = [s \in Subs |-> NoSeen]

\* An event ring nobody has used
RingIdle ==
    /\ es = NewEventStore(MaxRing, EventTTL)
    /\ clock = 0
    /\ ringLast = NoRingCall
    /\ collector = "idle"
    /\ ringHist = NoRingHist

\* No call on machine classes
ClassIdle == classIn = NoClassCall /\ classOut = NoClassResult

-----------------------------------------------------------------------------
(* Server.DetachNetworkInterface over the machine store and the manager.   *)
(* The record of one machine is in the store; its spec.resources were      *)
(* charged when the manager was initialized.  Two callers detach.          *)

NicNames == {"eth0", "eth1"}

DetId == "m1"

\* api.Machine as the store keeps it: the metadata, Spec.NetworkInterfaces
\* (by name) and Spec.Resources
DetMachine(version, deletedAt, finalizers, nics, resources) ==
    [id |-> DetId, version |-> version, deletedAt |-> deletedAt,
     finalizers |-> finalizers, nics |-> nics, resources |-> resources]

\* What GetRequiredResources asked for the machine when it was created: the
\* class's cpu and one nic per interface
DetRequired(nics) ==
    Merge(Single(ResourceCPU, 1), Single(ResourceNic, Cardinality(nics)))

\* machineStore.List for the manager: the resources of the stored machine
DetListed(d) ==
    IF get(d, DetId).exists THEN [m \in {1} |-> get(d, DetId).obj.resources]
    ELSE [m \in {} |-> EmptyList]

\* The manager's fields after the result r of an entry point
detManager(r, limit) ==
    [src |-> r.src, slots |-> r.slots, opErr |-> Nil, avail |-> r.avail, limit |-> limit]

\* manager.Initialize(ctx, machineStore.List) at the start of the provider
DetInitialize(d) ==
    detManager(mngInitialize([availableCPU |-> 0, availableMemory |-> 0,
                              availableNics |-> NewSourceNIC],
                             DetListed(d), MaxVMLimit),
               MaxVMLimit)

NoDetach == [pc |-> "idle", name |-> "", obj |-> ZeroObj, err |-> Nil,
             passed |-> FALSE, freed |-> FALSE]

ErrNicNotFound == "nic not found in machine"

\* The loop over apiMachine.Spec.NetworkInterfaces: the interfaces but name,
\* and whether name was among them
detachFound(obj, name) == name \in obj.nics

updatedNICS(obj, name) == obj.nics \ {name}

\* Nobody detaches, and the store of machines is not looked at
DetIdle ==
    /\ detStore = [f \in FileNames |-> NoFile]
    /\ detAvail = detManager([src |-> [availableCPU |-> 0, availableMemory |-> 0,
                                       availableNics |-> 0],
                              slots |-> 0, avail |-> NoAvail], 0)
    /\ detCall = [p \in Procs |-> NoDetach]

\* A machine with one or two interfaces, created and maybe marked deleted
\* (a marked record keeps a finalizer), and the manager initialized from it
DetInit ==
    /\ \E nics \in SUBSET NicNames \ {{}} : \E version \in 1..MaxVersion :
       \E mark \in {<<NilTime, {}>>, <<NilTime, {"f"}>>, <<now, {"f"}>>} :
         detStore = set([f \in FileNames |-> NoFile],
                        DetMachine(version, mark[1], mark[2], nics, DetRequired(nics)))
    /\ detAvail = DetInitialize(detStore)
    /\ detCall = [p \in Procs |-> NoDetach]

\* s.machineStore.Get and the search for the interface
DetGet(p) ==
    /\ detCall[p].pc = "idle"
    /\ \E name \in NicNames :
         LET file == get(detStore, DetId) IN
         IF ~file.exists
         THEN detCall' = [detCall EXCEPT ![p].pc = "done", ![p].name = name,
                                         ![p].err = ErrNotFound]
         ELSE IF ~detachFound(file.obj, name)
         THEN detCall' = [detCall EXCEPT ![p].pc = "done", ![p].name = name,
                                         ![p].err = ErrNicNotFound]
         ELSE detCall' = [detCall EXCEPT ![p].pc = "found", ![p].name = name,
                            ![p].obj = [file.obj EXCEPT !.nics = updatedNICS(file.obj, name)]]
    /\ UNCHANGED <<detStore, detAvail>>
    /\ UNCHANGED exceptDet

detUpdated(p, r) ==
    /\ detStore' = r.dir
    /\ detCall' = [detCall EXCEPT ![p].pc = IF r.res = Nil THEN "updated" ELSE "done",
                                  ![p].err = r.res,
                                  ![p].passed = r.res = Nil]

\* s.machineStore.Update(ctx, apiMachine), the whole of it under the lock of
\* the id; an error ends the call
DetUpdate(p) ==
    /\ detCall[p].pc = "found"
    /\ detUpdated(p, Update(detStore, detCall[p].obj, get(detStore, DetId)))
    /\ UNCHANGED detAvail
    /\ UNCHANGED exceptDet

detDeallocated(p, r) ==
    /\ detAvail' = [detManager(r, detAvail.limit) EXCEPT !.opErr = r.opErr]
    /\ detCall' = [detCall EXCEPT ![p].pc = "done", ![p].err = r.err,
                                  ![p].freed = TRUE,
                                  ![p].obj.resources = r.resources]

\* manager.Deallocate(apiMachine, {nic: 1}) and the return; apiMachine, with
\* what Deallocate made of its Spec.Resources, is dropped
DetDeallocate(p) ==
    /\ detCall[p].pc = "updated"
    /\ detDeallocated(p, Deallocate(detAvail, detCall[p].obj.resources,
                                    Single(ResourceNic, 1), FALSE))
    /\ UNCHANGED detStore
    /\ UNCHANGED exceptDet

\* The provider stops between two calls and starts again: the manager is
\* initialized from the records in the store
DetRestart ==
    /\ \A p \in Procs : detCall[p].pc \in {"idle", "done"}
    /\ \E p \in Procs : detCall[p].pc = "done"
    /\ detAvail' = DetInitialize(detStore)
    /\ detAvail' # detAvail
    /\ UNCHANGED <<detStore, detCall>>
    /\ UNCHANGED exceptDet

\* No manager over Hugepages and PCI, nobody detaching
TailIdle == HostIdle /\ DetIdle

LaterIdle == PCIInit /\ CfgInit /\ WatchIdle /\ RingIdle /\ ClassIdle /\ TailIdle

RestIdle == LockInit /\ LaterIdle

InitMgr == MgrInit /\ StoreIdle /\ CrashIdle /\ RestIdle

NextMgr ==
    \/ Initialize
    \/ AllocateCall
    \/ DeallocateCall
    \/ DetachNetworkInterface
    \/ Cancel

SpecMgr == InitMgr /\ [][NextMgr]_vars

InitStore == MgrIdle /\ StoreInit /\ CrashIdle /\ RestIdle

NextStore ==
    \E p \in Procs :
        \/ StoreCall(p)
        \/ StoreLock(p)
        \/ StoreCommit(p)
        \/ StoreReturn(p)

SpecStore == InitStore /\ [][NextStore]_vars

InitCrash ==
    /\ MgrIdle
    /\ idMu = [id \in Ids |-> FALSE]
    /\ pc = [p \in Procs |-> "idle"]
    /\ call = [p \in Procs |-> Idle]
    /\ race = NoRace
    /\ CrashInit
    /\ RestIdle

NextCrash ==
    \/ WBegin
    \/ WOpen
    \/ WEncode
    \/ WSync
    \/ WRename
    \/ WFail
    \/ Crash
    \/ Sweep

SpecCrash == InitCrash /\ [][NextCrash]_vars

\* The initialized manager with its cpu source, and two callers
InitLock ==
    /\ phase = "ready"
    /\ maxVMsLimit = 0
    /\ availableVMSlots = 0
    /\ src = [availableCPU |-> CPUInit, availableMemory |-> 0, availableNics |-> NewSourceNIC]
    /\ machines = [m \in MachineIds |-> EmptyList]
    /\ ctxCancelled = FALSE
    /\ operationError = Nil
    /\ lastOp = NoOp
    /\ classAvail = NoAvail
    /\ StoreIdle
    /\ CrashIdle
    /\ LockInit
    /\ LaterIdle

NextLock ==
    \E c \in Callers :
        \/ AllocEnter(c)
        \/ AllocLock(c)
        \/ AllocCharge(c)
        \/ AllocReturn(c)
        \/ AllocRelease(c)

SpecLock == InitLock /\ [][NextLock]_vars

InitPCI == MgrIdle /\ StoreIdle /\ CrashIdle /\ RestIdle

NextPCI ==
    \/ \E m \in MachineIds : PCIAllocateCall(m)
    \/ \E m \in MachineIds : PCIDeallocateCall(m)

SpecPCI == InitPCI /\ [][NextPCI]_vars

InitCfg == MgrIdle /\ StoreIdle /\ CrashIdle /\ RestIdle

NextCfg ==
    \/ CfgAddSource
    \/ CfgSetLogger
    \/ CfgSetMachineClasses
    \/ CfgSetVMLimit
    \/ CfgInitialize
    \/ CfgAllocate

SpecCfg == InitCfg /\ [][NextCfg]_vars

InitWatch ==
    /\ MgrIdle /\ StoreIdle /\ CrashIdle /\ LockInit /\ PCIInit /\ CfgInit /\ TailIdle
    /\ WatchInit
    /\ RingIdle
    /\ ClassIdle

NextWatch ==
    \/ \E s \in Subs : Watch(s)
    \/ \E s \in Subs : WatchStop(s)
    \/ \E s \in Subs : WatchReceive(s)
    \/ \E p \in Procs : WatchWrite(p)
    \/ \E p \in Procs : WatchSend(p)
    \/ \E p \in Procs : WatchUnlock(p)

SpecWatch == InitWatch /\ [][NextWatch]_vars

InitRing ==
    /\ MgrIdle /\ StoreIdle /\ CrashIdle /\ LockInit /\ PCIInit /\ CfgInit /\ TailIdle
    /\ WatchIdle
    /\ RingInit
    /\ ClassIdle

NextRing ==
    \/ RingAdd
    \/ RingStart
    \/ RingCancel
    \/ RingExpire
    \/ RingList
    \/ RingTick

SpecRing == InitRing /\ [][NextRing]_vars

\* rm.calculateMachineClassQuantity for one class
ClassCalculate ==
    /\ classIn.kind = "Calculate"
    /\ classOut.done = 0
    /\ \E ord \in Orders(classIn.class) :
         LET r == calculateMachineClassQuantity(ord, classIn.counts, classIn.limit,
                                                classIn.slots)
         IN  classOut' = [done |-> 1, err |-> r.err, available |-> r.available]
    /\ UNCHANGED classIn
    /\ UNCHANGED exceptClass

\* rm.initMachineClasses on one class file
ClassLoad ==
    /\ classIn.kind = "Load"
    /\ classOut.done = 0
    /\ \E inf \in InfCounts :
         LET r == initMachineClasses(classIn.file, classIn.sources,
                                     classIn.pageSize, inf)
         IN  classOut' = [done |-> 1, err |-> r.err,
                          machineClasses |-> r.machineClasses]
    /\ UNCHANGED classIn
    /\ UNCHANGED exceptClass

\* The number of network interfaces of a machine spec
MaxNics == 2

\* manager.GetRequiredResources for a spec of the class with these resources
\* and nics network interfaces: a copy of the class's resources with
\* nic = len(machineSpec.NetworkInterfaces) written over it
GetRequiredResources(resources, nics) == Merge(resources, Single(ResourceNic, nics))

\* Step 4 of allocate: every name of required is in the index
requiredSupported(required, index) == DOMAIN required \subseteq index

\* A machine of a class that was kept is created: GetRequiredResources,
\* then the manager's check of the names against the index of the sources
\* the classes were loaded with
ClassRequire ==
    /\ classIn.kind = "Load"
    /\ classOut.done = 1
    /\ classOut.err = Nil
    /\ \E i \in DOMAIN classOut.machineClasses : \E nics \in 0..MaxNics :
         LET required == GetRequiredResources(classOut.machineClasses[i], nics) IN
         classOut' = [done |-> 2, err |-> Nil,
                      machineClasses |-> classOut.machineClasses,
                      required |-> required,
                      allocErr |-> IF requiredSupported(required, IndexOf(classIn.sources))
                                   THEN Nil ELSE ErrResourceUnsupported]
    /\ UNCHANGED classIn
    /\ UNCHANGED exceptClass

InitClass ==
    /\ MgrIdle /\ StoreIdle /\ CrashIdle /\ LockInit /\ PCIInit /\ CfgInit /\ TailIdle
    /\ WatchIdle
    /\ RingIdle
    /\ ClassInit

NextClass ==
    \/ ClassModify
    \/ ClassCalculate
    \/ ClassLoad
    \/ ClassRequire

SpecClass == InitClass /\ [][NextClass]_vars

InitHost ==
    /\ MgrIdle /\ StoreIdle /\ CrashIdle /\ LockInit /\ PCIInit /\ CfgInit
    /\ WatchIdle
    /\ RingIdle
    /\ ClassIdle
    /\ HostInit
    /\ DetIdle

NextHost ==
    \/ \E m \in MachineIds : HostAllocateCall(m)
    \/ \E m \in MachineIds : HostDeallocateCall(m)
    \/ HostRestart

SpecHost == InitHost /\ [][NextHost]_vars

InitDet ==
    /\ MgrIdle /\ StoreIdle /\ CrashIdle /\ LockInit /\ PCIInit /\ CfgInit
    /\ WatchIdle
    /\ RingIdle
    /\ ClassIdle
    /\ HostIdle
    /\ DetInit

NextDet ==
    \/ \E p \in Procs : DetGet(p)
    \/ \E p \in Procs : DetUpdate(p)
    \/ \E p \in Procs : DetDeallocate(p)
    \/ DetRestart

SpecDet == InitDet /\ [][NextDet]_vars

\* The collector's round comes again after every resync interval as long
\* as ctx is not cancelled, and time passes
SpecRingLive == SpecRing /\ WF_vars(RingExpire) /\ WF_vars(RingTick)

-----------------------------------------------------------------------------
(* Properties of the resource manager (SpecMgr) *)

C3_AsStated ==
    \A r \in Names : Available(src)[r] >= 0

\* C4 as stated: with a vm limit set, the machines that hold an allocation
\* are never more than the limit.
C4_AsStated ==
    (phase = "ready" /\ maxVMsLimit > 0)
        => Cardinality({m \in MachineIds : DOMAIN machines[m] # {}}) <= maxVMsLimit

EntryPoints == {"Allocate", "Deallocate", "Detach"}

\* C10 (as amended): once the context is cancelled, no call of Allocate or
\* Deallocate changes a source, and every call that passes a non-empty list
\* (for Deallocate: for a machine that holds resources) returns the
\* cancellation error.
C10_Cancelled ==
    [][(ctxCancelled /\ lastOp'.kind \in EntryPoints)
          => /\ src' = src
             /\ (~lastOp'.emptyList /\ (lastOp'.kind = "Allocate" \/ lastOp'.held))
                   => lastOp'.err = Canceled]_vars

\* A Deallocate for a machine that holds resources was refused after the cancel
C10_Witness ==
    /\ ctxCancelled
    /\ lastOp.kind = "Deallocate"
    /\ lastOp.held
    /\ ~lastOp.emptyList
    /\ lastOp.err = Canceled

\* C10 as stated: every call after the cancel returns the cancellation error
C10_AsStated ==
    [][(ctxCancelled /\ lastOp'.kind \in EntryPoints)
          => (lastOp'.err = Canceled /\ src' = src)]_vars

\* What Initialize was given exceeds the capacity of the source of r
Exceeds(r) == SumAllocated(machines, MachineIds, r) > Capacity[r]

\* C13 as stated: when the persisted machines' allocated lists exceed the
\* capacity of any source, Initialize fails with ResourceNotAvailable and the
\* manager is not marked initialized.
C13_AsStated ==
    (lastOp.kind = "Initialize" /\ \E r \in Names : Exceeds(r))
        => (lastOp.err = ErrResourceNotAvailable /\ phase # "ready")

-----------------------------------------------------------------------------
(* Properties of the host store (SpecStore) *)

\* The step in which p's call does its work under the lock
Commits(p, op) == pc[p] = "locked" /\ pc'[p] = "done" /\ call[p].op = op

\* The new record asks for the hard delete
HardDelete(obj) == obj.deletedAt # NilTime /\ obj.finalizers = {}

BothDone == \A p \in Procs : pc[p] = "done"

ExactlyOneWins ==
    \E p, q \in Procs :
        /\ p # q
        /\ call[p].res = Nil
        /\ call[q].res = ErrResourceVersionNotLatest

\* C5 (as amended): of two concurrent Updates of one object that both carry
\* the stored version, both differ from the stored record and neither asks
\* for the hard delete, exactly one succeeds and the other returns
\* ResourceVersionNotLatest, under every interleaving.
C5_OneWinner ==
    (race.on /\ BothDone
        /\ \A p \in Procs : call[p].obj # race.stored /\ ~HardDelete(call[p].obj))
        => ExactlyOneWins

\* Two such Updates have both returned
C5_Witness ==
    /\ race.on
    /\ BothDone
    /\ \A p \in Procs : call[p].obj # race.stored /\ ~HardDelete(call[p].obj)
    /\ ExactlyOneWins

\* C5 as stated: any two concurrent Updates carrying the stored version
C5_AsStated ==
    (race.on /\ BothDone) => ExactlyOneWins

\* C6 as stated: an Update whose version differs from the stored one fails
\* with ResourceVersionNotLatest, leaves the directory as it is and publishes
\* no event, whatever its deleted_at and finalizers.
C6_AsStated ==
    [][\A p \in Procs :
          (Commits(p, "Update") /\ call[p].old.exists
              /\ call[p].old.obj.version # call[p].obj.version)
          => /\ call'[p].res = ErrResourceVersionNotLatest
             /\ dir' = dir
             /\ call'[p].event = NoEvent]_vars

\* C7 (as amended): a successful Update that leaves the record stored never
\* lowers its resource version, and raises it whenever it changes the record.
C7_Monotonic ==
    [][\A p \in Procs :
          (Commits(p, "Update") /\ call'[p].res = Nil
              /\ get(dir', call[p].obj.id).exists)
          => LET old == get(dir, call[p].obj.id)
                 new == get(dir', call[p].obj.id)
             IN  /\ new.obj.version >= old.obj.version
                 /\ new # old => new.obj.version > old.obj.version]_vars

\* An Update has written the record with the next version
C7_Witness ==
    \E p \in Procs :
        /\ pc[p] = "done"
        /\ call[p].op = "Update"
        /\ call[p].res = Nil
        /\ call[p].event = WatchEventTypeUpdated
        /\ get(dir, call[p].obj.id).obj.version = call[p].obj.version + 1

\* C7 as stated: every successful Update leaves a greater stored version
C7_AsStated ==
    [][\A p \in Procs :
          (Commits(p, "Update") /\ call'[p].res = Nil)
          => /\ get(dir', call[p].obj.id).exists
             /\ get(dir', call[p].obj.id).obj.version
                    > get(dir, call[p].obj.id).obj.version]_vars

\* C8: Delete of a stored record removes the file exactly when the record
\* has no finalizers; with finalizers the file stays, and the record is
\* either left as it is (already stamped) or stamped with deleted_at and the
\* next version.
C8_FinalizerGated ==
    [][\A p \in Procs :
          (Commits(p, "Delete") /\ get(dir, call[p].obj.id).exists)
          => LET old == get(dir, call[p].obj.id)
                 new == get(dir', call[p].obj.id)
             IN  /\ ~new.exists <=> old.obj.finalizers = {}
                 /\ old.obj.finalizers # {}
                      => new.obj = IF old.obj.deletedAt # NilTime THEN old.obj
                                   ELSE [old.obj EXCEPT !.deletedAt = now,
                                                        !.version = @ + 1]]_vars

\* A Delete of a record with finalizers has stamped it
C8_Witness ==
    \E p \in Procs :
        /\ pc[p] = "done"
        /\ call[p].op = "Delete"
        /\ call[p].event = WatchEventTypeDeleted
        /\ get(dir, call[p].obj.id).exists
        /\ get(dir, call[p].obj.id).obj.deletedAt = now

Stamped(d, id) ==
    /\ get(d, id).exists
    /\ get(d, id).obj.finalizers # {}
    /\ get(d, id).obj.deletedAt # NilTime

\* C17: a Delete of a record with finalizers that an earlier Delete has
\* stamped changes nothing: it returns no error, every file stays as it is
\* (deleted_at and resource version as the first Delete set them) and no
\* event is enqueued.
C17_SecondDelete ==
    [][\A p \in Procs :
          (Commits(p, "Delete") /\ Stamped(dir, call[p].obj.id))
          => /\ call'[p].res = Nil
             /\ dir' = dir
             /\ call'[p].event = NoEvent]_vars

\* Two Deletes of one record have returned: one stamped it, the other did nothing
C17_Witness ==
    \E p, q \in Procs :
        /\ p # q
        /\ pc[p] = "done" /\ pc[q] = "done"
        /\ call[p].op = "Delete" /\ call[q].op = "Delete"
        /\ call[p].obj.id = call[q].obj.id
        /\ call[p].event = WatchEventTypeDeleted
        /\ call[q].res = Nil /\ call[q].event = NoEvent
        /\ Stamped(dir, call[q].obj.id)

-----------------------------------------------------------------------------
(* Properties of the crash-safe write (SpecCrash) *)

\* C9: an object file is never partial; while a set is under way, and after
\* a set that failed or was cut by a crash before the rename, the object file
\* holds what it held when the set began (the previous record, or nothing);
\* CleanupSwapFiles leaves no swap file and leaves every object file alone.
C9_CrashSafe ==
    [][/\ \A id \in Ids : dir'[FilePath(id)].exists => dir'[FilePath(id)].complete
       /\ (wr'.step # "idle" \/ wr'.outcome \in {"failed", "crashed"})
             => get(dir', wr'.obj.id) = wr'.prev
       /\ (boot.state = "down" /\ boot'.state = "run")
             => \A id \in Ids : /\ ~dir'[SwpFilePath(id)].exists
                                /\ dir'[FilePath(id)] = dir[FilePath(id)]]_vars

\* A crash cut the rewrite of a stored record, the sweep removed its swap
\* file and the record is the previous one
C9_Witness ==
    /\ boot.swept
    /\ wr.outcome = "crashed"
    /\ SwpFilePath(wr.obj.id) \in boot.removed
    /\ wr.prev.exists
    /\ get(dir, wr.obj.id) = wr.prev

-----------------------------------------------------------------------------
(* Properties of the manager lock (SpecLock) *)

PairDone == mrace.on /\ \A c \in Callers : acall[c].pc = "done"

\* Each request fits what was free alone, both together do not
Contended ==
    /\ \A c \in Callers : acall[c].cpu <= mrace.avail
    /\ \E c, d \in Callers : c # d /\ acall[c].cpu + acall[d].cpu > mrace.avail

-----------------------------------------------------------------------------
(* Properties of the PCI source (SpecPCI) *)

\* C12: a PCI.Allocate in which some required resource has fewer free
\* addresses than requested returns ResourceNotAvailable and changes nothing:
\* every pool of addresses and every machine's status.pci_devices stay as they
\* were, also when another required resource of the call could be satisfied.
C12_NoMutation ==
    [][(pciLast'.kind = "Allocate" /\ pciLast'.short)
          => /\ pciLast'.err = ErrResourceNotAvailable
             /\ devices' = devices
             /\ pciDevices' = pciDevices]_vars

\* A refused call that had one pool short and another one sufficient
C12_Witness ==
    /\ pciLast.kind = "Allocate"
    /\ pciLast.short
    /\ pciLast.fits
    /\ pciLast.err = ErrResourceNotAvailable

-----------------------------------------------------------------------------
(* Properties of configuration and startup (SpecCfg) *)

CommonClaim(S) ==
    \E s, t \in S : s # t /\ InitClaims(s) \cap InitClaims(t) # {}

\* The sources of the manager that claim r
Owners(r) == {s \in cfg.sources : r \in InitClaims(s)}

\* C15: an Initialize in which two registered sources claim the same resource
\* name fails with CommonResources, as for Memory and Hugepages which both
\* claim memory; on an initialized manager every registered resource name
\* has exactly one source claiming it, which is its owner in the index.
C15_OneOwner ==
    /\ (cfgLast.kind = "Initialize" /\ CommonClaim(cfgLast.inited))
          => cfgLast.err = ErrCommonResources
    /\ (cfgLast.kind = "Initialize"
            /\ {SourceMemory, SourceHugepages} \subseteq cfgLast.inited)
          => cfgLast.err = ErrCommonResources
    /\ cfg.initialized
          => /\ \A s \in cfg.sources : InitClaims(s) \subseteq DOMAIN cfg.registredResources
             /\ \A r \in DOMAIN cfg.registredResources :
                   Owners(r) = {cfg.registredResources[r]}

\* Initialize refused for Memory and Hugepages registered together
C15_Witness ==
    /\ cfgLast.kind = "Initialize"
    /\ {SourceMemory, SourceHugepages} \subseteq cfgLast.inited
    /\ cfgLast.err = ErrCommonResources
    /\ ~cfg.initialized

-----------------------------------------------------------------------------
(* Properties of the watch bus (SpecWatch) *)

\* The step in which p's enqueue serves the open watch of h
Sends(p, h) ==
    /\ wcall[p].pc = "enqueue"
    /\ h \in wcall[p].todo
    /\ h \notin wcall'[p].todo
    /\ watches'[h].st = "open"

\* C18: enqueue never waits for a subscriber.  When it comes to a watch
\* whose buffer holds bufferSize events it leaves that buffer as it is and
\* goes on; a watch with room gets the event at the end of its buffer; the
\* buffers of the other subscribers are not touched, and whenever an enqueue
\* has handlers left its next round can be taken.
C18_NonBlocking ==
    /\ [][\A p \in Procs : \A h \in Subs :
             Sends(p, h)
             => /\ watches'[h].events =
                      IF Len(watches[h].events) >= bufferSize
                      THEN watches[h].events
                      ELSE Append(watches[h].events, wcall[p].evt)
                /\ \A o \in Subs \ {h} : watches'[o] = watches[o]
                /\ wcall'[p].pc = "enqueue"]_vars
    /\ [](\A p \in Procs :
             (wcall[p].pc = "enqueue" /\ wcall[p].todo # {}) => ENABLED WatchSend(p))

\* An enqueue has served its handlers: one had a full buffer and kept it, the
\* other one holds the event as its newest
C18_Witness ==
    \E p \in Procs : \E h, o \in Subs :
        /\ wcall[p].pc = "enqueue"
        /\ wcall[p].todo = {}
        /\ h \in wcall[p].missed
        /\ Len(watches[h].events) = bufferSize
        /\ o \in wcall[p].got
        /\ watches[o].events # <<>>
        /\ watches[o].events[Len(watches[o].events)] = wcall[p].evt

\* The step in which subscriber s takes an event from its channel
Receives(s) ==
    /\ watches[s].st = "open"
    /\ watches'[s].st = "open"
    /\ Len(watches'[s].events) = Len(watches[s].events) - 1

\* C19 (as amended): for every subscriber and object id the events taken
\* for that id follow the order in which the writes were committed, and
\* their resource versions increase strictly as long as the object was not
\* removed and created again in between.
C19_CommitOrder ==
    [][\A s \in Subs :
          Receives(s)
          => LET e    == Head(watches[s].events)
                 last == seen[s][e.id]
             IN  /\ e.seq > last.seq
                 /\ e.gen >= last.gen
                 /\ e.gen = last.gen => e.version > last.version]_vars

\* A subscriber took the Created event of an object and then the event of
\* its next write
C19_Witness ==
    \E s \in Subs : \E id \in Ids :
        /\ seen[s][id].count = 2
        /\ seen[s][id].seq = 2
        /\ seen[s][id].version = 2

\* C19 as stated: the events a subscriber takes for one id carry strictly
\* increasing resource versions.
C19_AsStated ==
    [][\A s \in Subs :
          Receives(s)
          => LET e == Head(watches[s].events)
             IN  e.version > seen[s][e.id].version]_vars

-----------------------------------------------------------------------------
(* Properties of the event ring (SpecRing) *)

\* C20: in every reachable state of the event ring the count is between 0
\* and maxEvents, and ListEvents returns count events, never more than
\* maxEvents, whatever the order of AddEvent, RemoveExpiredEvents and
\* ListEvents.
C20_Bounded ==
    /\ 0 <= es.count /\ es.count <= es.maxEvents
    /\ Len(ListEvents(es)) = es.count
    /\ ringLast.listed <= es.maxEvents
    /\ \A i \in 1..es.count : ListEvents(es)[i].set

\* ListEvents returned a full ring whose oldest event had been overridden
C20_Witness ==
    /\ ringLast.kind = "ListEvents"
    /\ ringLast.listed = es.maxEvents
    /\ es.maxEvents > 1
    /\ es.head # 0


\* C21: as long as no event has expired, after n accepted AddEvent calls
\* ListEvents returns exactly the last min(n, maxEvents) appended events,
\* oldest first: on a full ring an append overrides the oldest event.
C21_LastEvents ==
    ringHist.removed = 0
    => LET n == ringHist.adds
           m == IF n < es.maxEvents THEN n ELSE es.maxEvents
       IN  /\ Len(ListEvents(es)) = m
           /\ \A i \in 1..m : /\ ListEvents(es)[i].set
                              /\ ListEvents(es)[i].Message = n - m + i

\* ListEvents was called after more appends than the ring holds, none expired
C21_Witness ==
    /\ ringLast.kind = "ListEvents"
    /\ ringHist.removed = 0
    /\ es.maxEvents > 1
    /\ ringHist.adds > es.maxEvents


\* Event number k is in the list ListEvents returns
Listed(k) == \E i \in 1..es.count : ListEvents(es)[i].Message = k

\* The TTL of the listed event number k has elapsed
Elapsed(k) ==
    \E i \in 1..es.count :
        /\ ListEvents(es)[i].Message = k
        /\ ~NotExpired(ListEvents(es)[i], es.eventTTL, clock)

\* C22: while the collector started by Start keeps running, an appended
\* event whose TTL has elapsed is eventually absent from ListEvents: a
\* round of the collector removes it unless an append overrode it before.
C22_EventuallyExpired ==
    \A k \in 1..MaxAdds :
        (collector = "running" /\ Listed(k) /\ Elapsed(k))
            ~> (~Listed(k) \/ collector # "running")

\* A round of the running collector has removed an event and left the ring
\* empty
C22_Witness ==
    /\ collector = "running"
    /\ ringLast.kind = "RemoveExpiredEvents"
    /\ ringHist.adds > 0
    /\ ringHist.removed > 0
    /\ es.count = 0


\* A step that is one call of RemoveExpiredEvents
ExpireStep ==
    /\ ringLast'.kind = "RemoveExpiredEvents"
    /\ clock' = clock
    /\ collector' = collector
    /\ ringHist.adds' = ringHist.adds

\* C23: RemoveExpiredEvents removes exactly the longest run of oldest
\* events with EventTime + eventTTL <= now: what stays is the rest of the
\* list in its order, no removed event was unexpired, and the oldest event
\* that stays, if any, is unexpired.
C23_MaximalPrefix ==
    [][ExpireStep
       => LET old == ListEvents(es)
              new == ListEvents(es')
              k   == Len(old) - Len(new)
          IN  /\ k >= 0
              /\ new = [i \in 1..Len(new) |-> old[k + i]]
              /\ \A i \in 1..k :
                     old[i].EventTime * TicksPerSecond + es.eventTTL <= clock
              /\ Len(new) > 0
                     => new[1].EventTime * TicksPerSecond + es.eventTTL > clock]_vars

\* A call of RemoveExpiredEvents has removed the oldest event and kept a
\* younger one
C23_Witness ==
    /\ ringLast.kind = "RemoveExpiredEvents"
    /\ ringHist.removed > 0
    /\ es.count > 0
    /\ ringHist.adds = ringHist.removed + es.count


-----------------------------------------------------------------------------
(* Further properties of the resource manager (SpecMgr) *)

\* A step that is one call of manager.Allocate
AllocateStep == lastOp'.kind = "Allocate" /\ ctxCancelled' = ctxCancelled

\* C27: an Allocate that gets as far as the limit check (its list is not
\* empty, no operation error is set, the context is not cancelled) returns
\* ErrVMLimitReached exactly when maxVMsLimit > 0 and availableVMSlots = 0;
\* it then charges no source and leaves the slots, the machine and the
\* operation error as they were.  With maxVMsLimit = 0 no Allocate returns
\* ErrVMLimitReached, whatever availableVMSlots is.
C27_LimitCheck ==
    [][AllocateStep
       => /\ (lastOp'.err = ErrVMLimitReached)
                <=> /\ maxVMsLimit > 0
                    /\ availableVMSlots = 0
                    /\ ~lastOp'.emptyList
                    /\ operationError = Nil
                    /\ ~ctxCancelled
          /\ lastOp'.err = ErrVMLimitReached
                => /\ src' = src
                   /\ availableVMSlots' = availableVMSlots
                   /\ machines' = machines
                   /\ operationError' = operationError]_vars

\* An Allocate was refused with ErrVMLimitReached
C27_Witness ==
    /\ lastOp.kind = "Allocate"
    /\ lastOp.err = ErrVMLimitReached
    /\ maxVMsLimit > 0
    /\ availableVMSlots = 0
    /\ \E m \in MachineIds : machines[m] # EmptyList

\* C27 as stated: every Allocate returns ErrVMLimitReached exactly when
\* maxVMsLimit > 0 and availableVMSlots = 0
C27_AsStated ==
    [][AllocateStep
       => ((lastOp'.err = ErrVMLimitReached)
              <=> (maxVMsLimit > 0 /\ availableVMSlots = 0))]_vars



\* The count of class k from the sources' fields and the slots as they are
Fits(k) ==
    LET byCPU    == src.availableCPU \div machineClasses[k][ResourceCPU]
        byMemory == src.availableMemory \div machineClasses[k][ResourceMemory]
        least    == IF byCPU < byMemory THEN byCPU ELSE byMemory
        capped   == IF maxVMsLimit > 0 /\ availableVMSlots < least
                    THEN availableVMSlots ELSE least
    IN  IF capped < 0 THEN 0 ELSE capped

\* C25: once the manager is initialized, after every Initialize, Allocate
\* and Deallocate, refused and rolled back ones included, the count that
\* GetMachineClassStatus reports for each class is the count computed from
\* the sources' available quantities and availableVMSlots as they are now.
C25_FreshCounts ==
    phase = "ready"
    => \A k \in DOMAIN machineClasses :
           getAvailableMachineClasses(classAvail)[k].Quantity = Fits(k)

\* A Deallocate gave back what a machine held: the cpu source is full again
\* and a class is reported with the count that fits now
C25_Witness ==
    /\ phase = "ready"
    /\ lastOp.kind = "Deallocate"
    /\ lastOp.err = Nil
    /\ lastOp.held
    /\ \E k \in DOMAIN machineClasses :
           classAvail[k] > 0 /\ classAvail[k] = Fits(k)
    /\ src.availableCPU = CPUInit

-----------------------------------------------------------------------------
(* Properties of machine classes (SpecClass) *)

\* C26: for a page size above 0 and a declared memory above 0,
\* Hugepages.Modify replaces memory by the smallest multiple of the page
\* size that is not below the declared memory and sets hugepages to that
\* memory divided by the page size; mcr.roundHugepagesUp gives the same
\* memory; a second Modify changes nothing.
C26_RoundUp ==
    (classIn.kind = "Modify" /\ classOut.done > 0 /\ classIn.pageSize > 0
        /\ Qty(classIn.resources, ResourceMemory) > 0)
    => LET declared == classIn.resources[ResourceMemory]
           size     == classIn.pageSize
           after    == classOut.first.resources
       IN  /\ classOut.first.err = Nil
           /\ after[ResourceMemory] >= declared
           /\ after[ResourceMemory] % size = 0
           /\ \A m \in declared..(after[ResourceMemory] - 1) : m % size # 0
           /\ after[ResourceHugepages] * size = after[ResourceMemory]
           /\ after[ResourceMemory] = roundHugepagesUp(declared, size)
           /\ after[ResourceCPU] = classIn.resources[ResourceCPU]
           /\ classOut.done = 2
                 => (classOut.err = Nil /\ classOut.resources = after)

\* Modify was applied twice to a memory that is no multiple of the page size
C26_Witness ==
    /\ classIn.kind = "Modify"
    /\ classOut.done = 2
    /\ classIn.pageSize > 1
    /\ Qty(classIn.resources, ResourceMemory) % classIn.pageSize # 0
    /\ classOut.err = Nil


\* The counts that cap the class: the answers for its resources other than
\* QuantityCountIgnore
RealCounts == {classIn.counts[r] : r \in classIn.class} \ {QuantityCountIgnore}

\* C24: the available count of a class whose resources all have a source is
\* the least answer of the sources for its resources, leaving out every
\* answer QuantityCountIgnore (MaxInt64 when all are left out), then
\* availableVMSlots if maxVMsLimit > 0 and that is lower, then 0 if the
\* result is below 0; the order the resources are taken in does not matter.
C24_LeastCount ==
    (classIn.kind = "Calculate" /\ classOut.done = 1
        /\ classIn.class \subseteq DOMAIN classIn.counts)
    => LET least  == IF RealCounts = {} THEN MaxInt64
                     ELSE CHOOSE q \in RealCounts : \A p \in RealCounts : q <= p
           capped == IF classIn.limit > 0 /\ classIn.slots < least
                     THEN classIn.slots ELSE least
       IN  /\ classOut.err = Nil
           /\ classOut.available = IF capped < 0 THEN 0 ELSE capped

\* One source did not cap the class, another answered more than the slots
\* that are left under a vm limit
C24_Witness ==
    /\ classIn.kind = "Calculate"
    /\ classOut.done = 1
    /\ classIn.class \subseteq DOMAIN classIn.counts
    /\ QuantityCountIgnore \in {classIn.counts[r] : r \in classIn.class}
    /\ RealCounts = {MaxCount}
    /\ classIn.limit > 0
    /\ classIn.slots = 1
    /\ classOut.available = 1


\* The classes of the file that declare a resource without a source
Unsupported ==
    {i \in DOMAIN classIn.file :
        ~(DOMAIN classIn.file[i] \subseteq IndexOf(classIn.sources))}

\* A class of the file declares no cpu or no memory
Incomplete ==
    \E i \in DOMAIN classIn.file :
        ~({ResourceCPU, ResourceMemory} \subseteq DOMAIN classIn.file[i])

\* C28: after a load without error every class of the catalog holds cpu and
\* memory and only resources of the registered index; the load fails exactly
\* when a class of the file lacks cpu or memory; and a class that declares a
\* resource outside the index is left out of the catalog without an error,
\* the other classes staying in the order of the file.
C28_Catalog ==
    (classIn.kind = "Load" /\ classOut.done = 1)
    => /\ (classOut.err # Nil) <=> Incomplete
       /\ classOut.err = Nil
             => /\ \A k \in DOMAIN classOut.machineClasses :
                      LET c == classOut.machineClasses[k] IN
                      /\ {ResourceCPU, ResourceMemory} \subseteq DOMAIN c
                      /\ DOMAIN c \subseteq IndexOf(classIn.sources)
                /\ Len(classOut.machineClasses)
                      = Len(classIn.file) - Cardinality(Unsupported)
                /\ \A k \in DOMAIN classOut.machineClasses :
                      \E i \in DOMAIN classIn.file \ Unsupported :
                          /\ Cardinality({j \in DOMAIN classIn.file \ Unsupported : j <= i}) = k
                          /\ classOut.machineClasses[k][ResourceCPU]
                                = classIn.file[i][ResourceCPU]
                          /\ classOut.machineClasses[k][ResourceMemory]
                                >= classIn.file[i][ResourceMemory]

\* A file of two classes was loaded without error; the class with a resource
\* no source knows was dropped, the other is in the catalog
C28_Witness ==
    /\ classIn.kind = "Load"
    /\ classOut.done = 1
    /\ classOut.err = Nil
    /\ Len(classIn.file) = 2
    /\ Cardinality(Unsupported) = 1
    /\ Len(classOut.machineClasses) = 1

-----------------------------------------------------------------------------
(* Further properties of the host store (SpecStore) *)

\* C29: an Update of a stored object whose record has deleted_at set and no
\* finalizers returns no error and removes the object's file, so that a Get
\* after it finds nothing; it writes no version of the record (neither the
\* object's file nor its swap file holds one afterwards, every other file
\* stays as it is) and it enqueues no event.
C29_HardDelete ==
    [][\A p \in Procs :
          (Commits(p, "Update") /\ get(dir, call[p].obj.id).exists
             /\ HardDelete(call[p].obj))
          => LET id == call[p].obj.id IN
             /\ call'[p].res = Nil
             /\ ~get(dir', id).exists
             /\ dir'[SwpFilePath(id)] = dir[SwpFilePath(id)]
             /\ \A f \in FileNames \ {FilePath(id)} : dir'[f] = dir[f]
             /\ call'[p].event = NoEvent]_vars

\* An Update with the deletion mark and no finalizers has returned without
\* error, so the object was stored when it ran: its file is gone
C29_Witness ==
    \E p \in Procs :
        /\ pc[p] = "done"
        /\ call[p].op = "Update"
        /\ HardDelete(call[p].obj)
        /\ call[p].res = Nil
        /\ call[p].event = NoEvent
        /\ ~get(dir, call[p].obj.id).exists

\* C30: an Update whose record equals the stored record returns no error,
\* leaves every file as it is (the stored resource version with it) and
\* enqueues no event.
C30_NoChange ==
    [][\A p \in Procs :
          (Commits(p, "Update") /\ get(dir, call[p].obj.id).exists
             /\ get(dir, call[p].obj.id).obj = call[p].obj)
          => /\ call'[p].res = Nil
             /\ dir' = dir
             /\ get(dir', call[p].obj.id).obj.version = call[p].obj.version
             /\ call'[p].event = NoEvent]_vars

\* An Update has returned without error and without event, and the stored
\* record is the record it was given, version included
C30_Witness ==
    \E p \in Procs :
        /\ pc[p] = "done"
        /\ call[p].op = "Update"
        /\ call[p].res = Nil
        /\ call[p].event = NoEvent
        /\ get(dir, call[p].obj.id).exists
        /\ get(dir, call[p].obj.id).obj = call[p].obj

-----------------------------------------------------------------------------
(* Properties of the manager over Hugepages and PCI (SpecHost) *)

\* The list asks for memory and hugepages, for nothing else, and the
\* Hugepages source s.h has that much of both
FitsHugepages(s, list) ==
    /\ DOMAIN list = {ResourceMemory, ResourceHugepages}
    /\ s.h.availableMemory >= list[ResourceMemory]
    /\ s.h.availableHugePages >= list[ResourceHugepages]

\* C31: an Allocate whose list holds memory and hugepages, with that much
\* free in the Hugepages source, returns no error and leaves the source with
\* its available memory and hugepages less the amounts asked.
C31_AsStated ==
    [][(hostLast'.kind = "Allocate" /\ FitsHugepages(hostSrc, hostLast'.list))
          => /\ hostLast'.err = Nil
             /\ hostSrc'.h.availableMemory
                   = hostSrc.h.availableMemory - hostLast'.list[ResourceMemory]
             /\ hostSrc'.h.availableHugePages
                   = hostSrc.h.availableHugePages - hostLast'.list[ResourceHugepages]]_vars

\* The addresses of name that PCIDevices holds
AddrsOf(PCIDevices, name) ==
    {PCIDevices[i].Addr : i \in {j \in DOMAIN PCIDevices : PCIDevices[j].Name = name}}

\* The addresses in the pool of name
InPool(s, name) == {s.devices[name][i] : i \in DOMAIN s.devices[name]}

\* C32: after an Allocate without error for a list with several PCI names,
\* the machine's PCIDevices hold for each of the names as many addresses as
\* asked, none of them left in the pool; and a Deallocate of all the machine
\* holds puts as many addresses back into each pool as the machine held of
\* the name.
C32_AsStated ==
    [][/\ (/\ hostLast'.kind = "Allocate"
           /\ hostLast'.err = Nil
           /\ Cardinality(DOMAIN hostLast'.list \cap PCINames) > 1)
          => \A n \in DOMAIN hostLast'.list \cap PCINames :
                LET held == AddrsOf(hostMachines'[hostLast'.m].pci, n) IN
                /\ Cardinality(held) = hostLast'.list[n]
                /\ held \cap InPool(hostSrc', n) = {}
       /\ (/\ hostLast'.kind = "Deallocate"
           /\ hostLast'.err = Nil
           /\ hostLast'.list = hostMachines[hostLast'.m].resources
           /\ Cardinality(DOMAIN hostLast'.list \cap PCINames) > 1)
          => \A n \in DOMAIN hostLast'.list \cap PCINames :
                Len(hostSrc'.devices[n]) = Len(hostSrc.devices[n]) + hostLast'.list[n]]_vars

\* C33: after an Initialize without error, no address that a stored machine
\* record holds is in a pool of the PCI source, and the replay has given
\* each machine the addresses of its record.
C33_AsStated ==
    (hostLast.kind = "Initialize" /\ hostLast.err = Nil)
    => \A m \in MachineIds : \A n \in PCINames :
          /\ AddrsOf(hostMachines[m].pci, n) \cap InPool(hostSrc, n) = {}
          /\ AddrsOf(hostLast.machines[m].pci, n) = AddrsOf(hostMachines[m].pci, n)

\* How often the address is in the pool of name and in the machines'
\* PCIDevices
Places(name, addr) ==
    Cardinality({i \in DOMAIN hostSrc.devices[name] : hostSrc.devices[name][i] = addr})
    + Cardinality({<<m, i>> \in MachineIds \X (1..(2 * MaxAddrs)) :
                      /\ i \in DOMAIN hostMachines[m].pci
                      /\ hostMachines[m].pci[i] = [Addr |-> addr, Name |-> name]})

\* C34: every address that PCI.Init found is in one place: once in the pool
\* of its name, or once in the PCIDevices of one machine.
C34_AsStated ==
    \A n \in PCINames : \A i \in DOMAIN PCIPool(n) : Places(n, PCIPool(n)[i]) = 1

-----------------------------------------------------------------------------
(* Properties of DetachNetworkInterface (SpecDet) *)

\* The record of the machine in the store
DetStored == get(detStore, DetId).obj

\* A DetachNetworkInterface call of p has returned without error
DetSucceeded(p) ==
    detCall[p].pc = "done" /\ detCall[p].err = Nil /\ detCall[p].freed

\* C35, as the specification states it: once a DetachNetworkInterface call has
\* returned success, the stored record of the machine counts in spec.resources
\* the nics the NIC source holds for it, and a manager initialized from the
\* store has the sources at the availability they have now.
C35_AsStated ==
    (get(detStore, DetId).exists /\ \E p \in Procs : DetSucceeded(p)) =>
        /\ Qty(DetStored.resources, ResourceNic)
               = NewSourceNIC - detAvail.src.availableNics
        /\ DetInitialize(detStore).src = detAvail.src

\* C36: of two DetachNetworkInterface calls for the same interface of the
\* machine at most one gets its record through Store.Update; a call whose
\* Update did not pass ends with an error and has not called
\* manager.Deallocate, so the nic is given back at most once.
C36_ReleasedOnce ==
    /\ \A p, q \in Procs :
         (p # q /\ detCall[p].name = detCall[q].name) =>
             ~(detCall[p].passed /\ detCall[q].passed)
    /\ \A p \in Procs :
         /\ detCall[p].freed => detCall[p].passed
         /\ (detCall[p].pc = "done" /\ ~detCall[p].passed) =>
                (detCall[p].err # Nil /\ ~detCall[p].freed)

\* Both callers read the record with the interface in it; one has detached it
\* and given the nic back, the other was turned away by Store.Update for its
\* stale resource version.
C36_Witness ==
    \E p, q \in Procs :
        /\ p # q
        /\ detCall[p].name = detCall[q].name
        /\ DetSucceeded(p)
        /\ detCall[q].pc = "done"
        /\ detCall[q].err = ErrResourceVersionNotLatest
        /\ ~detCall[q].freed

-----------------------------------------------------------------------------
(* Further properties of the manager's entry points (SpecMgr) *)

\* The step is a call of manager.Deallocate
DeallocateStep == lastOp'.kind = "Deallocate" /\ ctxCancelled' = ctxCancelled

\* What the step gave back to the source of r
Credited(r) == Available(src')[r] - Available(src)[r]

\* The step is a Deallocate of machine m alone: the keys the sources got back
\* in full are gone from its list, the ones got back in part keep the rest,
\* the ones not given back stay
ReleasedFrom(m) ==
    /\ machines[m] # EmptyList
    /\ \A o \in MachineIds \ {m} : machines'[o] = machines[o]
    /\ \A r \in DOMAIN machines[m] :
         IF Credited(r) = 0 THEN Qty(machines'[m], r) = machines[m][r]
         ELSE IF Credited(r) >= machines[m][r] THEN r \notin DOMAIN machines'[m]
         ELSE Qty(machines'[m], r) = machines[m][r] - Credited(r)

\* The step leaves the sources, the machines and the slots as they were
NothingReleased ==
    src' = src /\ machines' = machines /\ availableVMSlots' = availableVMSlots

\* C37 (as amended): a successful Deallocate of a machine that holds
\* resources removes from its list every key that was given back in full; a
\* Deallocate of a machine whose list is empty changes no source and returns
\* nil when the list passed is not empty and ErrResourcesEmpty when it is, so
\* a second release of a machine's full allocation credits nothing.
C37_ReleasedKeys ==
    [][DeallocateStep =>
          /\ (lastOp'.held /\ lastOp'.err = Nil) => \E m \in MachineIds : ReleasedFrom(m)
          /\ ~lastOp'.held =>
                /\ NothingReleased
                /\ lastOp'.err = IF lastOp'.emptyList THEN ErrResourcesEmpty ELSE Nil]_vars

\* A Deallocate with a list that names something returned nil for a machine
\* that held nothing, as the second release of a full allocation does
C37_Witness ==
    /\ lastOp.kind = "Deallocate"
    /\ ~lastOp.held
    /\ ~lastOp.emptyList
    /\ lastOp.err = Nil
    /\ \E m \in MachineIds : machines[m] = EmptyList

\* C37 as stated: every Deallocate of a machine whose list is empty returns nil
C37_AsStated ==
    [][DeallocateStep =>
          /\ (lastOp'.held /\ lastOp'.err = Nil) => \E m \in MachineIds : ReleasedFrom(m)
          /\ ~lastOp'.held => (NothingReleased /\ lastOp'.err = Nil)]_vars

\* No source has more available than it had when it was initialized
WithinCapacity == \A r \in Names : Available(src)[r] <= Capacity[r]

\* C38 (as amended): as long as no Deallocate asked back more of a resource
\* than the machine held, no sequence of Initialize, Allocate and Deallocate
\* calls leaves a source with more available than its initial capacity.
C38_WithinCapacity ==
    (phase = "ready" /\ ~lastOp.over) => WithinCapacity

\* A machine gave back a part of what it held, within what it held, and a
\* source is back at its capacity while the machine keeps the rest
C38_Witness ==
    /\ phase = "ready"
    /\ lastOp.kind \in {"Deallocate", "Detach"}
    /\ lastOp.err = Nil
    /\ lastOp.held
    /\ ~lastOp.over
    /\ \E r \in Names : Available(src)[r] = Capacity[r]
    /\ \E m \in MachineIds : \E r \in DOMAIN machines[m] : machines[m][r] > 0

\* C38 as stated: no sequence of calls raises a source above its capacity,
\* also when a Deallocate names more than the machine holds or a resource it
\* never held.
C38_AsStated == phase = "ready" => WithinCapacity

\* The errors of Allocate that the caller's request brings about
CallerErrors == {ErrVMLimitReached, ErrResourceUnsupported}

\* A request the manager can serve now: it names something, every name is
\* registered, a vm slot is left and the sources of cpu and memory have what
\* it asks
ValidNow(required) ==
    /\ DOMAIN required # {}
    /\ DOMAIN required \subseteq DOMAIN registredResources
    /\ ~vmLimitReached(maxVMsLimit, availableVMSlots)
    /\ \A r \in DOMAIN required \cap {ResourceCPU, ResourceMemory} :
           required[r] <= Available(src)[r]

\* Every request that can be served now is served, in whatever order its
\* names are charged
ValidSucceeds ==
    \A m \in MachineIds : \A required \in RequiredLists :
        (machines[m] = EmptyList /\ ValidNow(required)) =>
            \A ord \in Orders(DOMAIN required) :
                Allocate(mgrState, machines[m], required, ord, maxVMsLimit,
                         ctxCancelled).err = Nil

\* C39: an Allocate that returns ErrVMLimitReached or ErrResourceUnsupported
\* leaves the operation error unset and the sources, the machines and the
\* slot count as they were, and in the state it leaves every Allocate of a
\* request the manager can serve succeeds.
C39_NoLatch ==
    /\ []((lastOp.kind = "Allocate" /\ lastOp.err \in CallerErrors)
             => (operationError = Nil /\ (~ctxCancelled => ValidSucceeds)))
    /\ [][(AllocateStep /\ lastOp'.err \in CallerErrors) => NothingReleased]_vars

\* An Allocate was refused with a caller error, and there is a request that
\* the manager can serve in the state the refusal left
C39_Witness ==
    /\ lastOp.kind = "Allocate"
    /\ lastOp.err \in CallerErrors
    /\ operationError = Nil
    /\ ~ctxCancelled
    /\ \E m \in MachineIds : \E required \in RequiredLists :
           machines[m] = EmptyList /\ ValidNow(required)

-----------------------------------------------------------------------------
(* Properties of GetRequiredResources (SpecClass) *)

\* C40, as the specification states it: for every class kept in the catalog
\* and every number of network interfaces, each name of the list
\* GetRequiredResources returns is in the index of registered resources, so
\* the Allocate of the list is not refused with ErrResourceUnsupported,
\* whichever sources are registered.
C40_AsStated ==
    (classIn.kind = "Load" /\ classOut.done = 2) =>
        /\ DOMAIN classOut.required \subseteq IndexOf(classIn.sources)
        /\ classOut.allocErr # ErrResourceUnsupported

=============================================================================
